---- MODULE Spec2Model ----
(***************************************************************************)
(* A model of the 3Dcity simulation core: the grid builder of City, the    *)
(* LevelOfDetail streaming cache, the Traffic vehicle/light simulation and *)
(* the Pedestrians behaviour machine.                                      *)
(*                                                                         *)
(* Conventions.                                                            *)
(*  - World coordinates are stored in half-units (value * 2): the grid     *)
(*    loop runs over half-integer block indices and the builder halves     *)
(*    blockSize and roadWidth, so every coordinate the code computes is a  *)
(*    multiple of 0.5 and is an integer here.  Names ending in 2 hold      *)
(*    doubled values.                                                      *)
(*  - Math.random() is a draw r / 100 with r in RandomDraws.               *)
(*  - Each component has its own specification (SpecCity, SpecLOD,         *)
(*    SpecTraffic, SpecPedFault); the variables of the other components    *)
(*    keep their initial values there.                                     *)
(***************************************************************************)
EXTENDS Integers, Sequences, FiniteSets, TLC

VARIABLES
    cfg,          \* City: [citySize, blockSize, roadWidth, sidewalkWidth]
    cityPc,       \* City: "grid" while createGridSystem loops, then "done"
    gx2, gz2,     \* City: doubled loop indices x, z of createGridSystem
    roadNetwork,  \* City.roadNetwork / Traffic.roadNetwork (sequence)
    sidewalks,    \* City.sidewalks / Pedestrians.sidewalks (sequence)
    crosswalks,   \* City.crosswalks / Pedestrians.crosswalks (sequence)
    trafficPc,    \* Traffic: "constructed" until initialize() ran, then "running"
    intersections,\* Traffic.intersections (sequence)
    vehicles,     \* Traffic.vehicles (sequence)
    tickLog,      \* per vehicle, what its last updateVehicle call decided
    lightLog,     \* the delta of the last update and, per intersection, the time since its last toggle
    blockRegistry,\* LevelOfDetail.blockRegistry: records in Map insertion order
    activeBlocks, \* LevelOfDetail.activeBlocks (set of block keys)
    stats,        \* LevelOfDetail.stats
    scene,        \* the handles that are direct children of the scene
    camera,       \* camera.position: [x, z]
    updateTimer,  \* LevelOfDetail.updateTimer, in tenths of a second
    lodLog,       \* what the last LevelOfDetail call did
    pedPc,        \* Pedestrians: "constructed" until initialize() ran, then "running"
    pedestrians,  \* Pedestrians.pedestrians (sequence)
    pedLog,       \* what the last Pedestrians call did, per pedestrian
    winPc,        \* City.createWindowGrid: "grid" while it loops, then "done"
    winGrid,      \* the call's [rows, columns]
    windows,      \* the window meshes created so far: the material each one uses
    windowLights, \* City.windowLights (sequence of [mesh, intensity])
    emissiveIntensity, \* material.emissiveIntensity of each material object
    winLog,       \* the last call on the window lights
    bldPc,        \* City.initialize: "landmarks", then "buildings" while createBuildings loops, then "done"
    landmarkPositions, \* City.landmarkPositions (sequence of doubled [x, z])
    buildX2, buildZ2, \* doubled loop indices x, z of createBuildings
    buildLog,     \* what the last createBuildingsOnBlock call did
    frameLog      \* animate(): the frames run, the order of the last one's updates
                  \* and the state the other order would have left

cityVars == <<cfg, cityPc, gx2, gz2, roadNetwork, sidewalks, crosswalks>>
trafficVars == <<trafficPc, intersections, vehicles, tickLog, lightLog>>

lodVars == <<blockRegistry, activeBlocks, stats, scene, camera, updateTimer, lodLog>>

pedVars == <<pedPc, pedestrians, pedLog>>

winVars == <<winPc, winGrid, windows, windowLights, emissiveIntensity, winLog>>

bldVars == <<bldPc, landmarkPositions, buildX2, buildZ2, buildLog>>

frameVars == <<frameLog>>

vars == <<cityVars, trafficVars, lodVars, pedVars, winVars, bldVars, frameVars>>

----------------------------------------------------------------------------
(* Bounds and program constants *)

\* Largest blockCount (blocks per side) the grid builder is run with.
MaxBlockCount == 3

\* City.js constructor
citySize == 300
roadWidth == 10
sidewalkWidth == 5
BlockSizes == {50, 40}

Point(x, z) == [x |-> x, z |-> z]

\* Math.floor(citySize / (blockSize + roadWidth))
blockCount(c) == c.citySize \div (c.blockSize + c.roadWidth)

\* City sizes at both edges of every floor bucket 0..MaxBlockCount, and the
\* shipped citySize when it fits the bound.
CitySizes(b, r) ==
    {n * (b + r) + d : n \in 0..MaxBlockCount, d \in {0, b + r - 1}}
      \cup {s \in {citySize} : s \div (b + r) <= MaxBlockCount}

Configs ==
    UNION {{[citySize |-> s, blockSize |-> b, roadWidth |-> roadWidth,
             sidewalkWidth |-> sidewalkWidth] : s \in CitySizes(b, roadWidth)} :
           b \in BlockSizes}

----------------------------------------------------------------------------
(* City: the grid builder *)

\* baseX = blockX * (blockSize + roadWidth), doubled
base2(c, block2) == block2 * (c.blockSize + c.roadWidth)

\* createRoad(baseX, baseZ, true): the segment pushed to roadNetwork
EastWestRoad(c, bx2, bz2) ==
    [start |-> Point(bx2 - c.blockSize - 2 * c.roadWidth,
                     bz2 + c.blockSize + c.roadWidth),
     end |-> Point(bx2 + c.blockSize + 2 * c.roadWidth,
                   bz2 + c.blockSize + c.roadWidth),
     direction |-> "east-west"]

\* createRoad(baseX, baseZ, false): the segment pushed to roadNetwork
NorthSouthRoad(c, bx2, bz2) ==
    [start |-> Point(bx2 + c.blockSize + c.roadWidth,
                     bz2 - c.blockSize - 2 * c.roadWidth),
     end |-> Point(bx2 + c.blockSize + c.roadWidth,
                   bz2 + c.blockSize + 2 * c.roadWidth),
     direction |-> "north-south"]

createRoad(c, bx2, bz2, isEastWest) ==
    IF isEastWest THEN EastWestRoad(c, bx2, bz2) ELSE NorthSouthRoad(c, bx2, bz2)

\* createCrosswalk(x, z, isEastWest): the record pushed to crosswalks
\* (width and depth doubled like the coordinates)
createCrosswalk(c, x2, z2, isEastWest) ==
    [x |-> x2, z |-> z2,
     width |-> IF isEastWest THEN 2 * (c.roadWidth - 1) ELSE 2 * 5,
     depth |-> IF isEastWest THEN 2 * 5 ELSE 2 * (c.roadWidth - 1),
     direction |-> IF isEastWest THEN "east-west" ELSE "north-south"]

\* the sidewalkArea record of createCityBlock
SidewalkArea(c, bx2, bz2) ==
    [x |-> bx2, z |-> bz2,
     width |-> 2 * c.blockSize, depth |-> 2 * c.blockSize,
     innerWidth |-> 2 * (c.blockSize - 2 * c.sidewalkWidth),
     innerDepth |-> 2 * (c.blockSize - 2 * c.sidewalkWidth)]

\* createCityBlock(blockX, blockZ); withCrosswalk is Math.random() < 0.7
createCityBlock(block2X, block2Z, withCrosswalk) ==
    LET bx2 == base2(cfg, block2X)
        bz2 == base2(cfg, block2Z)
    IN  /\ roadNetwork' = roadNetwork
               \o <<createRoad(cfg, bx2, bz2, TRUE), createRoad(cfg, bx2, bz2, FALSE)>>
        /\ crosswalks' =
             IF withCrosswalk
             THEN crosswalks \o
                  <<createCrosswalk(cfg, bx2 + cfg.blockSize + cfg.roadWidth, bz2, TRUE),
                    createCrosswalk(cfg, bx2, bz2 + cfg.blockSize + cfg.roadWidth, FALSE)>>
             ELSE crosswalks
        /\ sidewalks' = Append(sidewalks, SidewalkArea(cfg, bx2, bz2))

\* Mutant of GridStart2: the loop starts at Math.floor(-blockCount / 2).
GridStart2Floored(c) == 2 * ((-blockCount(c)) \div 2)

\* for (x = -blockCount/2; x < blockCount/2; x++): the doubled start index
GridStart2(c) == -blockCount(c)

\* x < blockCount / 2, doubled
GridInRange(c, i2) == i2 < blockCount(c)

\* One iteration of the inner loop of createGridSystem.
GridStep ==
    /\ cityPc = "grid"
    /\ GridInRange(cfg, gx2) /\ GridInRange(cfg, gz2)
    /\ \E withCrosswalk \in BOOLEAN : createCityBlock(gx2, gz2, withCrosswalk)
    /\ IF GridInRange(cfg, gz2 + 2)
       THEN gz2' = gz2 + 2 /\ gx2' = gx2
       ELSE gz2' = GridStart2(cfg) /\ gx2' = gx2 + 2
    /\ UNCHANGED <<cfg, cityPc>>

\* createGridSystem returns once the outer loop condition fails.
GridDone ==
    /\ cityPc = "grid"
    /\ ~(GridInRange(cfg, gx2) /\ GridInRange(cfg, gz2))
    /\ cityPc' = "done"
    /\ UNCHANGED <<cfg, gx2, gz2, roadNetwork, sidewalks, crosswalks>>

\* The k-th block visited by createGridSystem (doubled indices), k = 1..N^2.
GridBlock2(c, k) ==
    [x |-> GridStart2(c) + 2 * ((k - 1) \div blockCount(c)),
     z |-> GridStart2(c) + 2 * ((k - 1) % blockCount(c))]

\* The road network createGridSystem leaves behind: for each block in loop
\* order its east-west segment, then its north-south segment.
GridRoads(c) ==
    [i \in 1..(2 * blockCount(c) * blockCount(c)) |->
        LET b == GridBlock2(c, (i + 1) \div 2)
        IN  createRoad(c, base2(c, b.x), base2(c, b.z), i % 2 = 1)]

----------------------------------------------------------------------------
(* Traffic: geometry helpers *)

\* isClosePoints(point1, point2): sqrt(dx^2 + dz^2) < 0.5.  In half-units the
\* distance is doubled, so the test is dx2^2 + dz2^2 < 1.
isClosePoints(point1, point2) ==
    LET dx == point1.x - point2.x
        dz == point1.z - point2.z
    IN  dx * dx + dz * dz < 1

\* the filter of findNextRoad: indices of the roads that start at the end of
\* the current road
possibleRoads(net, currentRoad) ==
    {j \in 1..Len(net) : isClosePoints(net[j].start, currentRoad.end)}

----------------------------------------------------------------------------
(* Traffic *)
(* Time is in seconds.  progress and Math.random() draws are in hundredths *)
(* (0.98 is 98, a draw r stands for r / 100); speed is in hundredths of a  *)
(* unit per second.  Quotients are truncated to that resolution.  The      *)
(* vehicle meshes, colours and the car/truck type are not modelled.        *)

\* Number of vehicles createVehicles makes (this.vehicleCount, 15 in the
\* shipped build).
MaxVehicles == 1

\* this.vehicleSpeed
vehicleSpeed == 15

\* Math.random(): the least draw, and draws near the supremum of [0, 1)
RandomDraws == {0, 99}

\* the deltaTime values update(delta) is called with, in seconds
Deltas == {0, 5, 10}

\* Road networks handed to the Traffic constructor.  GridNetwork is what
\* City.createGridSystem produces for a single block; JunctionNetwork is a
\* network whose segments do meet end to start: a two-way east-west street
\* 200 units long and a north-south street ending at its west end.
GridNetwork ==
    GridRoads([citySize |-> 60, blockSize |-> 50, roadWidth |-> roadWidth,
               sidewalkWidth |-> sidewalkWidth])

JunctionNetwork ==
    << [start |-> Point(0, 0), end |-> Point(400, 0), direction |-> "east-west"],
       [start |-> Point(400, 0), end |-> Point(0, 0), direction |-> "east-west"],
       [start |-> Point(0, 400), end |-> Point(0, 0), direction |-> "north-south"] >>

\* JunctionNetwork plus a north-south street leaving its west end: at (0, 0)
\* a vehicle has a successor of either direction to choose from.
ForkNetwork ==
    Append(JunctionNetwork,
           [start |-> Point(0, 0), end |-> Point(0, 400), direction |-> "north-south"])

\* JunctionNetwork with the north-south street half a unit west of the
\* junction: it ends at (-0.5, 0), which rounds to the key of (0, 0).
OffsetNetwork ==
    << [start |-> Point(0, 0), end |-> Point(400, 0), direction |-> "east-west"],
       [start |-> Point(400, 0), end |-> Point(0, 0), direction |-> "east-west"],
       [start |-> Point(-1, 400), end |-> Point(-1, 0), direction |-> "north-south"] >>

RoadNetworks == {GridNetwork, JunctionNetwork, ForkNetwork}

\* Math.round of a coordinate stored in half-units: floor(x + 0.5)
round(x2) == (x2 + 1) \div 2

\* endKey of initializeTrafficLights
endKey(road) == <<round(road.end.x), round(road.end.z)>>

RECURSIVE SqrtFrom(_, _)
SqrtFrom(n, k) == IF (k + 1) * (k + 1) > n THEN k ELSE SqrtFrom(n, k + 1)

\* Math.sqrt on the squared lengths that occur, truncated
Sqrt(n) == SqrtFrom(n, 0)

\* calculateRoadLength(road), doubled
calculateRoadLength2(road) ==
    LET dx == road.end.x - road.start.x
        dz == road.end.z - road.start.z
    IN  IF dz = 0 THEN (IF dx < 0 THEN -dx ELSE dx)
        ELSE IF dx = 0 THEN (IF dz < 0 THEN -dz ELSE dz)
        ELSE Sqrt(dx * dx + dz * dz)

\* The roads whose end key appears first at them: each creates an intersection.
IntersectionCreators(net) ==
    {i \in 1..Len(net) : \A j \in 1..(i - 1) : endKey(net[j]) # endKey(net[i])}

RECURSIVE SortedSeq(_)
SortedSeq(S) ==
    IF S = {} THEN <<>>
    ELSE LET m == CHOOSE x \in S : \A y \in S : x <= y
         IN  <<m>> \o SortedSeq(S \ {m})

\* initializeTrafficLights(): Object.values of the map keyed by rounded end
\* coordinates, in insertion order.  state[i] and timer[i] are the random
\* initial state and timer offset drawn when road i creates its intersection.
initializeTrafficLights(net, state, timer) ==
    LET creators == SortedSeq(IntersectionCreators(net))
    IN  [k \in 1..Len(creators) |->
            LET i == creators[k]
            IN  [x |-> net[i].end.x, z |-> net[i].end.z,
                 roads |-> SortedSeq({j \in 1..Len(net) : endKey(net[j]) = endKey(net[i])}),
                 state |-> state[i],
                 timer |-> timer[i]]]

LightStates == {"east-west", "north-south"}

\* Math.random() * 10
InitialTimers == {(r * 10) \div 100 : r \in RandomDraws}

\* 10 + Math.random() * 5
ResetTimers == {10 + (r * 5) \div 100 : r \in RandomDraws}

\* this.vehicleSpeed * (0.8 + Math.random() * 0.4), in hundredths
Speeds == {vehicleSpeed * (80 + (r * 40) \div 100) : r \in RandomDraws}

\* createVehicle(type, road, progress): the vehicle object
createVehicle(road, progress, speed) ==
    [road |-> road, progress |-> progress, speed |-> speed]

\* Mutant of updateTrafficLight: the new timer is drawn like the initial
\* one, Math.random() * 10 scaled from the same draw.
updateTrafficLightShortReset(intersection, delta, reset) ==
    LET timer == intersection.timer - delta
    IN  IF timer <= 0
        THEN [intersection EXCEPT
                !.state = IF intersection.state = "east-west"
                          THEN "north-south" ELSE "east-west",
                !.timer = 2 * (reset - 10)]
        ELSE [intersection EXCEPT !.timer = timer]

\* Mutant of updateTrafficLight: the timer is reset but the light keeps
\* its state.
updateTrafficLightNoToggle(intersection, delta, reset) ==
    LET timer == intersection.timer - delta
    IN  IF timer <= 0
        THEN [intersection EXCEPT !.timer = reset]
        ELSE [intersection EXCEPT !.timer = timer]

\* the body of the forEach of updateTrafficLights, reset being the timer
\* drawn if the light toggles
updateTrafficLight(intersection, delta, reset) ==
    LET timer == intersection.timer - delta
    IN  IF timer <= 0
        THEN [intersection EXCEPT
                !.state = IF intersection.state = "east-west"
                          THEN "north-south" ELSE "east-west",
                !.timer = reset]
        ELSE [intersection EXCEPT !.timer = timer]

\* Mutant of findNextRoad: any road that starts at the end may be returned.
findNextRoadAny(net, currentRoad) ==
    IF possibleRoads(net, currentRoad) = {} THEN {0}
    ELSE possibleRoads(net, currentRoad)

\* findNextRoad(currentRoad): the road indices it may return, 0 for null
findNextRoad(net, currentRoad) ==
    LET possible == possibleRoads(net, currentRoad)
        sameDirection == {j \in possible : net[j].direction = currentRoad.direction}
    IN  IF possible = {} THEN {0}
        ELSE IF sameDirection # {} THEN sameDirection
        ELSE possible

\* the find of checkTrafficLight: index of the first intersection close to
\* the end of the current road, 0 if there is none
controllingIntersection(ints, currentRoad) ==
    LET close == {k \in 1..Len(ints) :
                    isClosePoints(Point(ints[k].x, ints[k].z), currentRoad.end)}
    IN  IF close = {} THEN 0 ELSE CHOOSE k \in close : \A m \in close : k <= m

\* Mutant of checkTrafficLight: the light is compared with the direction of
\* the road the vehicle is on.
checkTrafficLightCurrent(ints, currentRoad, nextRoad) ==
    LET k == controllingIntersection(ints, currentRoad)
    IN  IF k = 0 THEN TRUE ELSE currentRoad.direction = ints[k].state

\* checkTrafficLight(currentRoad, nextRoad)
checkTrafficLight(ints, currentRoad, nextRoad) ==
    LET k == controllingIntersection(ints, currentRoad)
    IN  IF k = 0 THEN TRUE
        ELSE \/ (nextRoad.direction = "east-west" /\ ints[k].state = "east-west")
             \/ (nextRoad.direction = "north-south" /\ ints[k].state = "north-south")

\* Mutant of stoppedProgress: the denied branch stores the overshooting value.
stoppedProgressOvershoot(progress, newProgress) == newProgress

\* The progress stored when the light denies the transition.  The code
\* assigns 0.98 to the local newProgress and never to vehicle.progress, so
\* the stored value is the one from before the call.
stoppedProgress(progress, newProgress) == progress

\* Mutant of randomRoadIndex: the product is rounded up.
randomRoadIndexCeil(net, r) == (r * Len(net) + 99) \div 100 + 1

\* Math.floor(Math.random() * this.roadNetwork.length), as an index from 1
randomRoadIndex(net, r) == (r * Len(net)) \div 100 + 1

\* vehicle.progress + delta * vehicle.speed / calculateRoadLength(vehicle.road)
advance(net, vehicle, delta) ==
    vehicle.progress + (delta * vehicle.speed * 2) \div calculateRoadLength2(net[vehicle.road])

\* updateVehicle(vehicle, delta): the vehicle afterwards, nextRoad being the
\* result of findNextRoad and r the draw of the dead-end branch.
updateVehicle(net, ints, vehicle, delta, nextRoad, r) ==
    LET newProgress == advance(net, vehicle, delta)
    IN  IF newProgress >= 100
        THEN IF nextRoad # 0
             THEN IF checkTrafficLight(ints, net[vehicle.road], net[nextRoad])
                  THEN [vehicle EXCEPT !.road = nextRoad, !.progress = 0]
                  ELSE [vehicle EXCEPT !.progress = stoppedProgress(vehicle.progress, newProgress)]
             ELSE [vehicle EXCEPT !.road = randomRoadIndex(net, r), !.progress = 0]
        ELSE [vehicle EXCEPT !.progress = newProgress]

\* What one updateVehicle call decided, kept for the claims: whether the
\* vehicle reached the end of its road, the successor findNextRoad returned
\* (0: null), the traffic light's answer, and whether the call before
\* (previous being its log) had found the vehicle at a light that
\* answered false.
LogOf(net, ints, vehicle, delta, nextRoad, previous) ==
    LET reached == advance(net, vehicle, delta) >= 100
    IN  [reached |-> reached,
         nextRoad |-> IF reached THEN nextRoad ELSE 0,
         canProceed |-> reached /\ nextRoad # 0
                          /\ checkTrafficLight(ints, net[vehicle.road], net[nextRoad]),
         held |-> previous.reached /\ previous.nextRoad # 0 /\ ~previous.canProceed]

NoLog == [reached |-> FALSE, nextRoad |-> 0, canProceed |-> FALSE, held |-> FALSE]

\* The outcomes of one updateVehicle call over its random draws: the result
\* of findNextRoad and, at a dead end, the draw of the random road.
VehicleOutcomes(net, ints, vehicle, delta, previous) ==
    {[vehicle |-> updateVehicle(net, ints, vehicle, delta, nextRoad, r),
      log |-> LogOf(net, ints, vehicle, delta, nextRoad, previous)] :
        nextRoad \in findNextRoad(net, net[vehicle.road]),
        r \in RandomDraws}

\* The outcomes of updateTrafficLights for one intersection over the draw of
\* its new timer.
LightOutcomes(intersection, delta) ==
    {updateTrafficLight(intersection, delta, reset) : reset \in ResetTimers}

\* What updateTrafficLights did, kept for the claims: the delta of the
\* last update call and, per intersection, the simulated time (the sum of
\* the deltas) since the call that last toggled it, NeverToggled before
\* the first toggle.
LightLogOf(delta, since) == [delta |-> delta, since |-> since]

NeverToggled == -1

NoLights == LightLogOf(0, <<>>)

\* The log after initializeTrafficLights() made the intersections ints.
CreatedLights(ints) == LightLogOf(0, [k \in 1..Len(ints) |-> NeverToggled])

\* The log after an update call with delta turned before into after.
UpdatedLights(log, before, after, delta) ==
    LightLogOf(delta,
               [k \in 1..Len(before) |->
                   IF after[k].state # before[k].state THEN 0
                   ELSE IF log.since[k] = NeverToggled THEN NeverToggled
                   ELSE log.since[k] + delta])

\* All sequences whose i-th element is drawn from Choices[i].
RECURSIVE Products(_, _)
Products(Choices, n) ==
    IF n = 0 THEN {<<>>}
    ELSE {Append(p, c) : p \in Products(Choices, n - 1), c \in Choices[n]}

\* Traffic.initialize(): initializeTrafficLights() then createVehicles().
Initialize ==
    /\ trafficPc = "constructed"
    /\ \E state \in [IntersectionCreators(roadNetwork) -> LightStates],
          timer \in [IntersectionCreators(roadNetwork) -> InitialTimers] :
            intersections' = initializeTrafficLights(roadNetwork, state, timer)
    /\ IF Len(roadNetwork) = 0
       THEN vehicles' = <<>>
       ELSE \E road \in [1..MaxVehicles -> 1..Len(roadNetwork)],
               progress \in [1..MaxVehicles -> RandomDraws],
               speed \in [1..MaxVehicles -> Speeds] :
                 vehicles' = [i \in 1..MaxVehicles |->
                                createVehicle(road[i], progress[i], speed[i])]
    /\ tickLog' = [i \in 1..Len(vehicles') |-> NoLog]
    /\ lightLog' = CreatedLights(intersections')
    /\ trafficPc' = "running"
    /\ UNCHANGED roadNetwork

\* Traffic.update(delta): updateTrafficLights(delta), then updateVehicle for
\* every vehicle against the updated lights.
Update ==
    /\ trafficPc = "running"
    /\ \E delta \in Deltas :
         \E ints \in Products([k \in 1..Len(intersections) |->
                                 LightOutcomes(intersections[k], delta)],
                              Len(intersections)) :
           /\ intersections' = ints
           /\ lightLog' = UpdatedLights(lightLog, intersections, ints, delta)
           /\ \E outs \in Products([i \in 1..Len(vehicles) |->
                                      VehicleOutcomes(roadNetwork, ints, vehicles[i], delta,
                                                      tickLog[i])],
                                   Len(vehicles)) :
                /\ vehicles' = [i \in 1..Len(vehicles) |-> outs[i].vehicle]
                /\ tickLog' = [i \in 1..Len(vehicles) |-> outs[i].log]
    /\ UNCHANGED <<trafficPc, roadNetwork>>

----------------------------------------------------------------------------
(* LevelOfDetail: the streaming cache                                      *)
(*                                                                         *)
(* Block coordinates, base positions and the camera position are in whole  *)
(* units; the update timer and deltaTime are in tenths of a second.  A     *)
(* block key is the pair <<blockX, blockZ>>.  The factory handed to        *)
(* registerBlock is identified by the number of buildings it makes.        *)

\* this.viewDistance, this.blockRegistryDistance
viewDistance == 600
blockRegistryDistance == 1200

\* this.updateFrequency (0.5 s), in tenths of a second
updateFrequency == 5

\* Most buildings a factory makes for one block.
MaxBuildings == 2

\* New blocks are registered while stats.totalBuildings is below this.
MaxTotalBuildings == 1

\* The factories registered: one that makes nothing (a reserved block) and
\* one that makes MaxBuildings buildings.
BuildFns == {0, MaxBuildings}

\* The blocks registered, with blockSize + roadWidth = 50: base positions
\* (100, 100), (600, 0) and (1200, 0).
BlockKeys == {<<2, 2>>, <<12, 0>>, <<24, 0>>}

\* The camera positions visited.
Viewpoints == {Point(0, 0), Point(1000, 1000), Point(1800, 0)}

\* deltaTime of LevelOfDetail.update, in tenths of a second
LodDeltas == {3, 5, 12}

\* The result of createBuildingsFn(block.x, block.z): n building handles,
\* each one added to the scene by the factory; the first is a group with
\* one child mesh.
BuildingHandle(blockKey, n) == [block |-> blockKey, n |-> n, part |-> 0]

createBuildingsFn(fn, blockKey) ==
    [i \in 1..fn |-> BuildingHandle(blockKey, i)]

\* building.children
children(building) ==
    IF building.n = 1 /\ building.part = 0
    THEN {[block |-> building.block, n |-> building.n, part |-> 1]}
    ELSE {}

\* scene.remove(object): detaches object if it is a direct child of the scene
sceneRemove(sc, object) == sc \ {object}

\* this.blockRegistry.has(blockKey)
has(reg, blockKey) == \E i \in 1..Len(reg) : reg[i].key = blockKey

indexOf(reg, blockKey) == CHOOSE i \in 1..Len(reg) : reg[i].key = blockKey

\* this.blockRegistry.get(blockKey), for a key the registry has
get(reg, blockKey) == reg[indexOf(reg, blockKey)]

\* this.blockRegistry.set(blockKey, block): a new key is appended, an
\* existing key keeps its place
set(reg, blockKey, block) ==
    IF has(reg, blockKey)
    THEN [reg EXCEPT ![indexOf(reg, blockKey)] = block]
    ELSE Append(reg, block)

\* this.blockRegistry.delete(blockKey)
delete(reg, blockKey) ==
    SelectSeq(reg, LAMBDA block : block.key # blockKey)

\* The part of the LevelOfDetail object the block operations work on;
\* buildCalls counts the invocations of createBuildingsFn and ops records
\* the branch updateVisibility took for each block.
LodState ==
    [blockRegistry |-> blockRegistry, activeBlocks |-> activeBlocks,
     stats |-> stats, scene |-> scene, buildCalls |-> 0,
     ops |-> [k \in BlockKeys |-> <<>>]]

\* Mutant of registerGuard: registerBlock stores a record for any key.
registerGuardAlways(reg, blockKey) == TRUE

\* the condition of registerBlock
registerGuard(reg, blockKey) == ~has(reg, blockKey)

\* registerBlock(blockX, blockZ, createBuildingsFn)
registerBlock(l, c, blockX, blockZ, fn) ==
    LET blockKey == <<blockX, blockZ>>
    IN  IF registerGuard(l.blockRegistry, blockKey)
        THEN [l EXCEPT
                !.blockRegistry =
                    set(@, blockKey,
                        [key |-> blockKey, x |-> blockX, z |-> blockZ,
                         createBuildingsFn |-> fn,
                         buildings |-> <<>>,
                         isActive |-> FALSE,
                         buildingsCounted |-> FALSE,
                         baseX |-> blockX * (c.blockSize + c.roadWidth),
                         baseZ |-> blockZ * (c.blockSize + c.roadWidth)]),
                !.stats.totalBlocks = @ + 1]
        ELSE l

\* Mutant of activateGuard: activateBlock does not look at isActive.
activateGuardRegistered(reg, blockKey) == has(reg, blockKey)

\* Mutant of activateGuard: a block whose factory makes nothing is skipped.
activateGuardNonEmpty(reg, blockKey) ==
    /\ has(reg, blockKey)
    /\ ~get(reg, blockKey).isActive
    /\ get(reg, blockKey).createBuildingsFn > 0

\* the condition of activateBlock: block && !block.isActive
activateGuard(reg, blockKey) ==
    has(reg, blockKey) /\ ~get(reg, blockKey).isActive

\* activateBlock(blockKey)
activateBlock(l, blockKey) ==
    IF activateGuard(l.blockRegistry, blockKey)
    THEN LET block == get(l.blockRegistry, blockKey)
             buildings == createBuildingsFn(block.createBuildingsFn, blockKey)
         IN  [l EXCEPT
                !.blockRegistry =
                    set(@, blockKey,
                        [block EXCEPT !.buildings = buildings,
                                      !.isActive = TRUE,
                                      !.buildingsCounted = TRUE]),
                !.activeBlocks = @ \cup {blockKey},
                !.stats.totalBuildings =
                    IF block.buildingsCounted THEN @ ELSE @ + Len(buildings),
                !.stats.activeBuildings = @ + Len(buildings),
                !.stats.activeBlocks = @ + 1,
                !.scene = @ \cup {buildings[i] : i \in 1..Len(buildings)},
                !.buildCalls = @ + 1]
    ELSE l

RECURSIVE removeEach(_, _)
removeEach(sc, objects) ==
    IF objects = {} THEN sc
    ELSE LET object == CHOOSE o \in objects : TRUE
         IN  removeEach(sceneRemove(sc, object), objects \ {object})

\* Mutant of removeBuildings: only the children are removed from the scene.
removeBuildingsChildrenOnly(sc, buildings) ==
    removeEach(sc, UNION {children(buildings[i]) : i \in 1..Len(buildings)})

\* the forEach of deactivateBlock: scene.remove(building), then
\* scene.remove(child) for each of its children
removeBuildings(sc, buildings) ==
    removeEach(sc, {buildings[i] : i \in 1..Len(buildings)}
                     \cup UNION {children(buildings[i]) : i \in 1..Len(buildings)})

\* Mutant of deactivateBlock: stats.activeBuildings is left as it was.
deactivateBlockKeepCount(l, blockKey) ==
    IF has(l.blockRegistry, blockKey) /\ get(l.blockRegistry, blockKey).isActive
    THEN LET block == get(l.blockRegistry, blockKey)
         IN  [l EXCEPT
                !.scene = removeBuildings(@, block.buildings),
                !.blockRegistry =
                    set(@, blockKey,
                        [block EXCEPT !.buildings = <<>>, !.isActive = FALSE]),
                !.activeBlocks = @ \ {blockKey},
                !.stats.activeBlocks = @ - 1]
    ELSE l

\* deactivateBlock(blockKey)
deactivateBlock(l, blockKey) ==
    IF has(l.blockRegistry, blockKey) /\ get(l.blockRegistry, blockKey).isActive
    THEN LET block == get(l.blockRegistry, blockKey)
         IN  [l EXCEPT
                !.scene = removeBuildings(@, block.buildings),
                !.stats.activeBuildings = @ - Len(block.buildings),
                !.blockRegistry =
                    set(@, blockKey,
                        [block EXCEPT !.buildings = <<>>, !.isActive = FALSE]),
                !.activeBlocks = @ \ {blockKey},
                !.stats.activeBlocks = @ - 1]
    ELSE l

\* Mutant of unregisterBlock: the record is dropped without deactivating.
unregisterBlockKeepActive(l, blockKey) ==
    IF has(l.blockRegistry, blockKey)
    THEN [l EXCEPT !.blockRegistry = delete(@, blockKey),
                   !.stats.totalBlocks = @ - 1]
    ELSE l

\* unregisterBlock(blockKey)
unregisterBlock(l, blockKey) ==
    IF has(l.blockRegistry, blockKey)
    THEN LET l1 == IF get(l.blockRegistry, blockKey).isActive
                   THEN deactivateBlock(l, blockKey)
                   ELSE l
         IN  [l1 EXCEPT !.blockRegistry = delete(@, blockKey),
                        !.stats.totalBlocks = @ - 1]
    ELSE l

distanceSquared(block, cameraPosition) ==
    (block.baseX - cameraPosition.x) * (block.baseX - cameraPosition.x)
      + (block.baseZ - cameraPosition.z) * (block.baseZ - cameraPosition.z)

\* Mutant of shouldBlockBeActive: a block at exactly viewDistance is out.
shouldBlockBeActiveStrict(block, cameraPosition) ==
    distanceSquared(block, cameraPosition) < viewDistance * viewDistance

\* shouldBlockBeActive(block)
shouldBlockBeActive(block, cameraPosition) ==
    distanceSquared(block, cameraPosition) <= viewDistance * viewDistance

\* Mutant of shouldBlockBeUnregistered: the distance is taken per axis.
shouldBlockBeUnregisteredPerAxis(block, cameraPosition) ==
    \/ (block.baseX - cameraPosition.x) * (block.baseX - cameraPosition.x)
         > blockRegistryDistance * blockRegistryDistance
    \/ (block.baseZ - cameraPosition.z) * (block.baseZ - cameraPosition.z)
         > blockRegistryDistance * blockRegistryDistance

\* shouldBlockBeUnregistered(block)
shouldBlockBeUnregistered(block, cameraPosition) ==
    distanceSquared(block, cameraPosition)
        > blockRegistryDistance * blockRegistryDistance

\* The body of the loop of updateVisibility for one entry of the registry.
visitBlock(l, cameraPosition, blockKey) ==
    LET block == get(l.blockRegistry, blockKey)
    IN  IF shouldBlockBeUnregistered(block, cameraPosition)
        THEN [unregisterBlock(l, blockKey) EXCEPT
                !.ops[blockKey] = Append(@, "unregister")]
        ELSE IF shouldBlockBeActive(block, cameraPosition) /\ ~block.isActive
        THEN [activateBlock(l, blockKey) EXCEPT
                !.ops[blockKey] = Append(@, "activate")]
        ELSE IF ~shouldBlockBeActive(block, cameraPosition) /\ block.isActive
        THEN [deactivateBlock(l, blockKey) EXCEPT
                !.ops[blockKey] = Append(@, "deactivate")]
        ELSE l

\* updateVisibility(): the entries of the Map are visited in insertion
\* order; an entry deleted while it is visited is not visited again.
RECURSIVE visitEntries(_, _, _, _)
visitEntries(l, cameraPosition, entries, i) ==
    IF i > Len(entries) THEN l
    ELSE visitEntries(visitBlock(l, cameraPosition, entries[i].key),
                      cameraPosition, entries, i + 1)

\* Mutant of updateVisibility: a block in view that the registry does not
\* have is registered again before the scan.
updateVisibilityRestoring(l, cameraPosition) ==
    LET pitch == cfg.blockSize + cfg.roadWidth
        missing == {k \in BlockKeys :
                      /\ ~has(l.blockRegistry, k)
                      /\ (k[1] * pitch - cameraPosition.x) * (k[1] * pitch - cameraPosition.x)
                           + (k[2] * pitch - cameraPosition.z) * (k[2] * pitch - cameraPosition.z)
                           <= viewDistance * viewDistance}
        restored == IF missing = {} THEN l
                    ELSE LET k == CHOOSE k \in missing : TRUE
                         IN  registerBlock(l, cfg, k[1], k[2], MaxBuildings)
    IN  visitEntries(restored, cameraPosition, restored.blockRegistry, 1)

updateVisibility(l, cameraPosition) ==
    visitEntries(l, cameraPosition, l.blockRegistry, 1)

NoKey == <<0, 0>>

NoOps == [k \in BlockKeys |-> <<>>]

\* What one call did: the method and the key it was called with, how often
\* it invoked createBuildingsFn, the branches updateVisibility took per
\* block, whether the call repeats the previous one (same method, same
\* key), for updateVisibility the blocks active before the scan, and for
\* update(deltaTime) its argument.
LodLogOf(op, blockKey, buildCalls, ops, again, activeBefore, deltaTime) ==
    [op |-> op, key |-> blockKey, buildCalls |-> buildCalls, ops |-> ops,
     again |-> again, activeBefore |-> activeBefore, deltaTime |-> deltaTime]

\* Store the outcome l of the call op: update(deltaTime), or op(blockKey).
CommitUpdate(l, op, blockKey, deltaTime) ==
    /\ blockRegistry' = l.blockRegistry
    /\ activeBlocks' = l.activeBlocks
    /\ stats' = l.stats
    /\ scene' = l.scene
    /\ lodLog' = LodLogOf(op, blockKey, l.buildCalls, l.ops,
                          lodLog.op = op /\ lodLog.key = blockKey,
                          IF op = "updateVisibility" THEN activeBlocks ELSE {},
                          deltaTime)

Commit(l, op, blockKey) == CommitUpdate(l, op, blockKey, 0)

RegisterBlock ==
    \E blockKey \in BlockKeys, fn \in BuildFns :
        /\ has(blockRegistry, blockKey) \/ stats.totalBuildings < MaxTotalBuildings
        /\ Commit(registerBlock(LodState, cfg, blockKey[1], blockKey[2], fn),
                  "register", blockKey)
        /\ UNCHANGED <<camera, updateTimer>>

ActivateBlock ==
    \E blockKey \in BlockKeys :
        /\ Commit(activateBlock(LodState, blockKey), "activate", blockKey)
        /\ UNCHANGED <<camera, updateTimer>>

DeactivateBlock ==
    \E blockKey \in BlockKeys :
        /\ Commit(deactivateBlock(LodState, blockKey), "deactivate", blockKey)
        /\ UNCHANGED <<camera, updateTimer>>

UnregisterBlock ==
    \E blockKey \in BlockKeys :
        /\ Commit(unregisterBlock(LodState, blockKey), "unregister", blockKey)
        /\ UNCHANGED <<camera, updateTimer>>

\* Mutant of scanDue: the accumulated time has to exceed updateFrequency.
scanDueStrict(timer) == timer > updateFrequency

\* this.updateTimer >= this.updateFrequency
scanDue(timer) == timer >= updateFrequency

\* update(deltaTime)
LodUpdate ==
    \E deltaTime \in LodDeltas :
        /\ IF scanDue(updateTimer + deltaTime)
           THEN /\ updateTimer' = 0
                /\ CommitUpdate(updateVisibility(LodState, camera),
                                "updateVisibility", NoKey, deltaTime)
           ELSE /\ updateTimer' = updateTimer + deltaTime
                /\ CommitUpdate(LodState, "update", NoKey, deltaTime)
        /\ UNCHANGED camera

\* The camera moves between frames.
MoveCamera ==
    /\ camera' \in Viewpoints \ {camera}
    /\ lodLog' = LodLogOf("moveCamera", NoKey, 0, NoOps, FALSE, {}, 0)
    /\ UNCHANGED <<blockRegistry, activeBlocks, stats, scene, updateTimer>>

----------------------------------------------------------------------------
(* Pedestrians: the behaviour machine                                      *)
(*                                                                         *)
(* Pedestrian positions, distances and sizes are in tenths of a unit (a    *)
(* doubled City coordinate times 5), time in tenths of a second, speed in  *)
(* tenths of a unit per second.  A nullable field is a sequence: <<>> for  *)
(* null, <<v>> for a value; currentCrosswalk and targetSidewalk are        *)
(* indices, 0 for null.  Meshes, gender and colours are not modelled.      *)

\* Number of pedestrians createPedestrians makes (this.pedestrianCount, 100
\* in the shipped build).
MaxPedestrians == 1

\* this.walkSpeed
walkSpeed == 3

\* deltaTime of Pedestrians.update, in tenths of a second
PedDeltas == {25, 50}

\* A doubled City coordinate in tenths of a unit.
Tenths(v2) == 5 * v2

\* The sidewalks createGridSystem leaves behind, in loop order.
GridSidewalks(c) ==
    [k \in 1..(blockCount(c) * blockCount(c)) |->
        LET b == GridBlock2(c, k)
        IN  SidewalkArea(c, base2(c, b.x), base2(c, b.z))]

\* The crosswalks createGridSystem leaves behind when every block gets its
\* pair (Math.random() < 0.7 each time).
GridCrosswalks(c) ==
    [i \in 1..(2 * blockCount(c) * blockCount(c)) |->
        LET b == GridBlock2(c, (i + 1) \div 2)
            bx2 == base2(c, b.x)
            bz2 == base2(c, b.z)
        IN  IF i % 2 = 1
            THEN createCrosswalk(c, bx2 + c.blockSize + c.roadWidth, bz2, TRUE)
            ELSE createCrosswalk(c, bx2, bz2 + c.blockSize + c.roadWidth, FALSE)]

\* The cities handed to the Pedestrians constructor: one block, and two by
\* two blocks, with the shipped block size.
PedConfigs ==
    {[citySize |-> s, blockSize |-> 50, roadWidth |-> roadWidth,
      sidewalkWidth |-> sidewalkWidth] : s \in {60, 120}}

\* The random draws of one updatePedestrian or createPedestrian call:
\* walk is Math.random() < 0.8, edge the quarter the perimeter draw falls
\* in, along the draw along that edge, pick the draw of the random
\* candidate, wait the draw of setIdleBehavior, speed the draw of the speed.
PedDraws ==
    [walk : BOOLEAN, edge : 1..4, along : {50}, pick : RandomDraws,
     wait : RandomDraws, speed : RandomDraws]

\* The draws createPedestrian reads: position, wait time and speed.
CreateDraws == {d \in PedDraws : d.walk /\ d.pick = 0}

\* The draws updatePedestrian reads: an idle pedestrian's call draws the
\* behaviour, the position and the candidate, any other call at most the
\* wait time.
UpdateDraws(pedestrian) ==
    IF pedestrian.state = "idle"
    THEN {d \in PedDraws : d.wait = 0 /\ d.speed = 0}
    ELSE {d \in PedDraws : d.walk /\ d.edge = 1 /\ d.pick = 0 /\ d.speed = 0}

\* calculateRandomPositionOnSidewalk(sidewalk)
calculateRandomPositionOnSidewalk(sidewalk, d) ==
    LET margin == 10
        x0 == Tenths(sidewalk.x) - Tenths(sidewalk.width) \div 2
        z0 == Tenths(sidewalk.z) - Tenths(sidewalk.depth) \div 2
        alongX == x0 + margin + (d.along * (Tenths(sidewalk.width) - margin * 2)) \div 100
        alongZ == z0 + margin + (d.along * (Tenths(sidewalk.depth) - margin * 2)) \div 100
    IN  IF d.edge = 1 THEN Point(alongX, z0 + margin)
        ELSE IF d.edge = 2
        THEN Point(Tenths(sidewalk.x) + Tenths(sidewalk.width) \div 2 - margin, alongZ)
        ELSE IF d.edge = 3
        THEN Point(alongX, Tenths(sidewalk.z) + Tenths(sidewalk.depth) \div 2 - margin)
        ELSE Point(x0 + margin, alongZ)

\* 1 + Math.random() * 4, in tenths of a second
idleWaitTime(r) == 10 + (r * 40) \div 100

\* setIdleBehavior(pedestrian)
setIdleBehavior(pedestrian, d) ==
    [pedestrian EXCEPT !.state = "idle", !.waitTime = idleWaitTime(d.wait)]

\* setWalkingBehavior(pedestrian)
setWalkingBehavior(sw, pedestrian, d) ==
    [pedestrian EXCEPT
        !.state = "walking",
        !.targetPosition =
            <<calculateRandomPositionOnSidewalk(sw[pedestrian.currentSidewalk], d)>>]

\* squared distance between two points
distanceToSquared(a, b) ==
    (a.x - b.x) * (a.x - b.x) + (a.z - b.z) * (a.z - b.z)

\* Mutant of findNearestCrosswalk: the nearest crosswalk at any distance.
findNearestCrosswalkAnyDistance(cw, position) ==
    LET dist(i) == distanceToSquared(Point(Tenths(cw[i].x), Tenths(cw[i].z)), position)
    IN  IF Len(cw) = 0 THEN 0
        ELSE CHOOSE i \in 1..Len(cw) :
                /\ \A j \in 1..Len(cw) : dist(i) <= dist(j)
                /\ \A j \in 1..(i - 1) : dist(j) > dist(i)

\* findNearestCrosswalk(position): index of the crosswalk, 0 for null
findNearestCrosswalk(cw, position) ==
    LET dist(i) == distanceToSquared(Point(Tenths(cw[i].x), Tenths(cw[i].z)), position)
        nearest == CHOOSE i \in 1..Len(cw) :
                      /\ \A j \in 1..Len(cw) : dist(i) <= dist(j)
                      /\ \A j \in 1..(i - 1) : dist(j) > dist(i)
    IN  IF Len(cw) = 0 THEN 0
        ELSE IF dist(nearest) < 300 * 300 THEN nearest ELSE 0

Abs(n) == IF n < 0 THEN -n ELSE n

\* the filter of findOppositeSidewalk: the candidate indices, in order
candidateSidewalks(sw, currentSidewalk, crosswalk) ==
    SelectSeq([i \in 1..Len(sw) |-> i],
              LAMBDA i :
                 LET dx == Abs(Tenths(sw[i].x) - Tenths(sw[currentSidewalk].x))
                     dz == Abs(Tenths(sw[i].z) - Tenths(sw[currentSidewalk].z))
                 IN  /\ i # currentSidewalk
                     /\ IF crosswalk.direction = "east-west"
                        THEN dx < 300 /\ dz > 50 /\ dz < 1000
                        ELSE dz < 300 /\ dx > 50 /\ dx < 1000)

\* findOppositeSidewalk(currentSidewalk, crosswalk): index, 0 for null
findOppositeSidewalk(sw, currentSidewalk, crosswalk, d) ==
    LET candidates == candidateSidewalks(sw, currentSidewalk, crosswalk)
    IN  IF Len(sw) <= 1 THEN 0
        ELSE IF Len(candidates) = 0 THEN 0
        ELSE candidates[1 + (d.pick * Len(candidates)) \div 100]

\* setCrossingBehavior(pedestrian)
setCrossingBehavior(sw, cw, pedestrian, d) ==
    LET nearestCrosswalk == findNearestCrosswalk(cw, pedestrian.position)
        crosswalk == cw[nearestCrosswalk]
        targetSidewalk == findOppositeSidewalk(sw, pedestrian.currentSidewalk, crosswalk, d)
        halfWidth == Tenths(crosswalk.width) \div 2
        halfDepth == Tenths(crosswalk.depth) \div 2
        crosswalkStart ==
            Point(Tenths(crosswalk.x) - (IF crosswalk.direction = "east-west" THEN 0 ELSE halfWidth),
                  Tenths(crosswalk.z) - (IF crosswalk.direction = "north-south" THEN 0 ELSE halfDepth))
        crosswalkEnd ==
            Point(Tenths(crosswalk.x) + (IF crosswalk.direction = "east-west" THEN 0 ELSE halfWidth),
                  Tenths(crosswalk.z) + (IF crosswalk.direction = "north-south" THEN 0 ELSE halfDepth))
        path == <<crosswalkStart, crosswalkEnd,
                  calculateRandomPositionOnSidewalk(sw[targetSidewalk], d)>>
    IN  IF nearestCrosswalk = 0
        THEN setWalkingBehavior(sw, pedestrian, d)
        ELSE IF targetSidewalk = 0
        THEN setWalkingBehavior(sw,
                 [pedestrian EXCEPT !.state = "crossing",
                                    !.currentCrosswalk = nearestCrosswalk], d)
        ELSE [pedestrian EXCEPT
                !.state = "crossing",
                !.currentCrosswalk = nearestCrosswalk,
                !.targetSidewalk = targetSidewalk,
                !.path = path,
                !.targetPosition = <<path[1]>>]

\* createPedestrian(gender, sidewalk)
createPedestrian(sw, sidewalk, d) ==
    setIdleBehavior(
        [currentSidewalk |-> sidewalk,
         targetSidewalk |-> 0,
         currentCrosswalk |-> 0,
         position |-> calculateRandomPositionOnSidewalk(sw[sidewalk], d),
         targetPosition |-> <<>>,
         speed |-> (walkSpeed * (70 + (d.speed * 60) \div 100)) \div 10,
         state |-> "idle",
         waitTime |-> 0,
         path |-> <<>>], d)

RECURSIVE SqrtBetween(_, _, _)
SqrtBetween(n, lo, hi) ==
    IF lo >= hi THEN lo
    ELSE LET mid == (lo + hi + 1) \div 2
         IN  IF mid * mid <= n THEN SqrtBetween(n, mid, hi)
             ELSE SqrtBetween(n, lo, mid - 1)

\* position.distanceTo(target), truncated
distanceTo(a, b) == SqrtBetween(distanceToSquared(a, b), 0, 32768)

\* a * b / c truncated towards zero
Scaled(a, b, c) == IF a >= 0 THEN (a * b) \div c ELSE -(((-a) * b) \div c)

\* position.add(direction.multiplyScalar(distanceToMove))
moveTowards(position, target, distanceToMove) ==
    LET distanceToTarget == distanceTo(position, target)
    IN  Point(position.x + Scaled(target.x - position.x, distanceToMove, distanceToTarget),
              position.z + Scaled(target.z - position.z, distanceToMove, distanceToTarget))

\* Mutant of distanceToMove: a step that covers no distance.
distanceToMoveNone(pedestrian, delta) == 0

\* pedestrian.speed * delta, delta in tenths of a second
distanceToMove(pedestrian, delta) == (pedestrian.speed * delta) \div 10

\* distanceToMove >= distanceToTarget
reaches(pedestrian, delta) ==
    distanceToMove(pedestrian, delta) * distanceToMove(pedestrian, delta)
        >= distanceToSquared(pedestrian.position, pedestrian.targetPosition[1])

\* Mutant of updateIdlePedestrian: a pedestrian that chose to cross first
\* waits at the kerb.
updateIdlePedestrianWaiting(sw, cw, pedestrian, delta, d) ==
    LET waited == [pedestrian EXCEPT !.waitTime = @ - delta]
    IN  IF waited.waitTime <= 0
        THEN IF d.walk THEN setWalkingBehavior(sw, waited, d)
             ELSE [waited EXCEPT !.state = "waiting", !.waitTime = idleWaitTime(d.wait)]
        ELSE waited

\* updateIdlePedestrian(pedestrian, delta)
updateIdlePedestrian(sw, cw, pedestrian, delta, d) ==
    LET waited == [pedestrian EXCEPT !.waitTime = @ - delta]
    IN  IF waited.waitTime <= 0
        THEN IF d.walk THEN setWalkingBehavior(sw, waited, d)
             ELSE setCrossingBehavior(sw, cw, waited, d)
        ELSE waited

\* updateWalkingPedestrian(pedestrian, delta)
updateWalkingPedestrian(pedestrian, delta, d) ==
    IF reaches(pedestrian, delta)
    THEN setIdleBehavior([pedestrian EXCEPT !.position = pedestrian.targetPosition[1]], d)
    ELSE [pedestrian EXCEPT
            !.position = moveTowards(@, pedestrian.targetPosition[1],
                                     distanceToMove(pedestrian, delta))]

\* Mutant of crossingGuard: only the path is looked at.
crossingGuardPathOnly(pedestrian) == Len(pedestrian.path) = 0

\* !pedestrian.targetPosition || pedestrian.path.length === 0
crossingGuard(pedestrian) ==
    pedestrian.targetPosition = <<>> \/ Len(pedestrian.path) = 0

\* updateCrossingPedestrian reads targetPosition.x of a null targetPosition
\* and fails with a TypeError.
crossingThrows(pedestrian) ==
    ~crossingGuard(pedestrian) /\ pedestrian.targetPosition = <<>>

\* Mutant of updateCrossingPedestrian: arrival leaves currentSidewalk as
\* it was.
updateCrossingPedestrianKeepSidewalk(pedestrian, delta, d) ==
    IF crossingGuard(pedestrian) THEN setIdleBehavior(pedestrian, d)
    ELSE IF crossingThrows(pedestrian) THEN pedestrian
    ELSE IF reaches(pedestrian, delta)
    THEN LET arrived == [pedestrian EXCEPT !.position = pedestrian.targetPosition[1],
                                           !.path = Tail(@)]
         IN  IF Len(arrived.path) = 0
             THEN setIdleBehavior([arrived EXCEPT !.targetSidewalk = 0,
                                                  !.currentCrosswalk = 0], d)
             ELSE [arrived EXCEPT !.targetPosition = <<arrived.path[1]>>]
    ELSE [pedestrian EXCEPT
            !.position = moveTowards(@, pedestrian.targetPosition[1],
                                     distanceToMove(pedestrian, delta))]

\* updateCrossingPedestrian(pedestrian, delta)
updateCrossingPedestrian(pedestrian, delta, d) ==
    IF crossingGuard(pedestrian) THEN setIdleBehavior(pedestrian, d)
    ELSE IF crossingThrows(pedestrian) THEN pedestrian
    ELSE IF reaches(pedestrian, delta)
    THEN LET arrived == [pedestrian EXCEPT !.position = pedestrian.targetPosition[1],
                                           !.path = Tail(@)]
         IN  IF Len(arrived.path) = 0
             THEN setIdleBehavior([arrived EXCEPT !.currentSidewalk = arrived.targetSidewalk,
                                                  !.targetSidewalk = 0,
                                                  !.currentCrosswalk = 0], d)
             ELSE [arrived EXCEPT !.targetPosition = <<arrived.path[1]>>]
    ELSE [pedestrian EXCEPT
            !.position = moveTowards(@, pedestrian.targetPosition[1],
                                     distanceToMove(pedestrian, delta))]

\* updateWaitingPedestrian(pedestrian, delta)
updateWaitingPedestrian(pedestrian, delta) ==
    LET waited == [pedestrian EXCEPT !.waitTime = @ - delta]
    IN  IF waited.waitTime <= 0 THEN [waited EXCEPT !.state = "crossing"] ELSE waited

\* updatePedestrian(pedestrian, delta)
updatePedestrian(sw, cw, pedestrian, delta, d) ==
    IF pedestrian.state = "idle" THEN updateIdlePedestrian(sw, cw, pedestrian, delta, d)
    ELSE IF pedestrian.state = "walking" THEN updateWalkingPedestrian(pedestrian, delta, d)
    ELSE IF pedestrian.state = "crossing" THEN updateCrossingPedestrian(pedestrian, delta, d)
    ELSE IF pedestrian.state = "waiting" THEN updateWaitingPedestrian(pedestrian, delta)
    ELSE pedestrian

\* What one call did to a pedestrian: the method, whether the call found
\* the pedestrian crossing with an empty path or a null targetPosition,
\* whether it failed with an exception, and the state the call found the
\* pedestrian in ("" where there was no pedestrian before the call).
PedLogOf(op, inconsistent, threw, before) ==
    [op |-> op, inconsistent |-> inconsistent, threw |-> threw, before |-> before]

\* The outcomes of one updatePedestrian call over its random draws.
PedestrianOutcomes(sw, cw, pedestrian, delta) ==
    {[pedestrian |-> updatePedestrian(sw, cw, pedestrian, delta, d),
      log |-> PedLogOf("update",
                       pedestrian.state = "crossing"
                         /\ (pedestrian.targetPosition = <<>> \/ Len(pedestrian.path) = 0),
                       pedestrian.state = "crossing" /\ crossingThrows(pedestrian),
                       pedestrian.state)] :
        d \in UpdateDraws(pedestrian)}

\* Pedestrians.initialize(): createPedestrians()
PedInitialize ==
    /\ pedPc = "constructed"
    /\ IF Len(sidewalks) = 0
       THEN pedestrians' = <<>>
       ELSE \E sidewalkIndex \in [1..MaxPedestrians -> 1..Len(sidewalks)],
               d \in [1..MaxPedestrians -> CreateDraws] :
                 pedestrians' = [i \in 1..MaxPedestrians |->
                                   createPedestrian(sidewalks, sidewalkIndex[i], d[i])]
    /\ pedLog' = [i \in 1..Len(pedestrians') |-> PedLogOf("create", FALSE, FALSE, "")]
    /\ pedPc' = "running"

\* Pedestrians.update(delta): updatePedestrian for every pedestrian.  The
\* update that follows a disturbance ends the test.
PedUpdate ==
    /\ pedPc \in {"running", "disturbed"}
    /\ \E delta \in PedDeltas :
         \E outs \in Products([i \in 1..Len(pedestrians) |->
                                 PedestrianOutcomes(sidewalks, crosswalks, pedestrians[i], delta)],
                              Len(pedestrians)) :
           /\ pedestrians' = [i \in 1..Len(pedestrians) |-> outs[i].pedestrian]
           /\ pedLog' = [i \in 1..Len(pedestrians) |-> outs[i].log]
    /\ pedPc' = IF pedPc = "disturbed" THEN "tested" ELSE pedPc

\* A test places a pedestrian in state crossing with its path emptied, its
\* targetPosition set to null, or both.
Disturb ==
    /\ pedPc = "running"
    /\ \E i \in 1..Len(pedestrians), emptyPath \in BOOLEAN, nullTarget \in BOOLEAN :
         /\ emptyPath \/ nullTarget
         /\ pedestrians' =
              [pedestrians EXCEPT
                 ![i] = [@ EXCEPT !.state = "crossing",
                                  !.path = IF emptyPath THEN <<>> ELSE @,
                                  !.targetPosition = IF nullTarget THEN <<>> ELSE @]]
         /\ pedLog' = [pedLog EXCEPT ![i] = PedLogOf("disturb", FALSE, FALSE, pedestrians[i].state)]
    /\ pedPc' = "disturbed"

----------------------------------------------------------------------------
(* The animation loop: one frame of Traffic and Pedestrians                *)
(*                                                                         *)
(* animate() calls traffic.update(delta) and pedestrians.update(delta)     *)
(* with the same delta.  A frame's random choices are fixed before either  *)
(* update runs: the timer drawn by the lights that toggle (one draw for    *)
(* all of them), per vehicle the one draw its updateVehicle call makes (in *)
(* findNextRoad if the road has a successor, in the dead-end branch if     *)
(* not), per pedestrian the draws of its updatePedestrian call.  delta is  *)
(* in seconds; Pedestrians count time in tenths of a second.               *)

\* Number of frames run.
MaxFrames == 2

\* the delta values of a frame, in seconds
FrameDeltas == {5, 10}

\* The objects the two updates work on.
World ==
    [roadNetwork |-> roadNetwork, sidewalks |-> sidewalks,
     crosswalks |-> crosswalks, intersections |-> intersections,
     vehicles |-> vehicles, tickLog |-> tickLog, lightLog |-> lightLog,
     pedestrians |-> pedestrians, pedLog |-> pedLog]

\* The choices one frame may draw in the state w.
FrameChoices(w) ==
    [reset : ResetTimers,
     r : [1..Len(w.vehicles) -> RandomDraws],
     d : {f \in [1..Len(w.pedestrians) -> PedDraws] :
            \A i \in 1..Len(w.pedestrians) : f[i] \in UpdateDraws(w.pedestrians[i])}]

\* findNextRoad with its draw given: Math.floor(Math.random() * length)
\* indexes the filtered list, which is in network order.
chosenNextRoad(net, currentRoad, pick) ==
    LET candidates == SortedSeq(findNextRoad(net, currentRoad))
    IN  candidates[(pick * Len(candidates)) \div 100 + 1]

\* Traffic.update(delta) under the choices c
trafficUpdate(w, delta, c) ==
    LET ints == [k \in 1..Len(w.intersections) |->
                    updateTrafficLight(w.intersections[k], delta, c.reset)]
        nextRoad(i) == chosenNextRoad(w.roadNetwork,
                                      w.roadNetwork[w.vehicles[i].road], c.r[i])
    IN  [w EXCEPT
           !.intersections = ints,
           !.lightLog = UpdatedLights(w.lightLog, w.intersections, ints, delta),
           !.vehicles = [i \in 1..Len(w.vehicles) |->
                           updateVehicle(w.roadNetwork, ints, w.vehicles[i], delta,
                                         nextRoad(i), c.r[i])],
           !.tickLog = [i \in 1..Len(w.vehicles) |->
                           LogOf(w.roadNetwork, ints, w.vehicles[i], delta, nextRoad(i),
                                 w.tickLog[i])]]

\* Mutant of pedestriansUpdate: pedestrians stand still while the first
\* traffic light shows east-west.
pedestriansUpdateAtLight(w, delta, c) ==
    IF Len(w.intersections) > 0 /\ w.intersections[1].state = "east-west"
    THEN w
    ELSE [w EXCEPT
            !.pedestrians = [i \in 1..Len(w.pedestrians) |->
                               updatePedestrian(w.sidewalks, w.crosswalks,
                                                w.pedestrians[i], 10 * delta, c.d[i])]]

\* Pedestrians.update(delta) under the choices c
pedestriansUpdate(w, delta, c) ==
    [w EXCEPT
       !.pedestrians = [i \in 1..Len(w.pedestrians) |->
                          updatePedestrian(w.sidewalks, w.crosswalks,
                                           w.pedestrians[i], 10 * delta, c.d[i])],
       !.pedLog = [i \in 1..Len(w.pedestrians) |->
                     PedLogOf("update",
                              w.pedestrians[i].state = "crossing"
                                /\ (w.pedestrians[i].targetPosition = <<>>
                                      \/ Len(w.pedestrians[i].path) = 0),
                              w.pedestrians[i].state = "crossing"
                                /\ crossingThrows(w.pedestrians[i]),
                              w.pedestrians[i].state)]]

FrameLogOf(n, order, swapped) == [n |-> n, order |-> order, swapped |-> swapped]

NoFrame == FrameLogOf(0, "none", <<>>)

\* One frame of animate(): the two updates in the order the code has them
\* ("traffic-first") or swapped; frameLog keeps what the other order gives.
Frame ==
    /\ trafficPc = "running" /\ pedPc = "running"
    /\ frameLog.n < MaxFrames
    /\ \E delta \in FrameDeltas, c \in FrameChoices(World),
          order \in {"traffic-first", "pedestrians-first"} :
         LET trafficFirst == pedestriansUpdate(trafficUpdate(World, delta, c), delta, c)
             pedestriansFirst == trafficUpdate(pedestriansUpdate(World, delta, c), delta, c)
             w == IF order = "traffic-first" THEN trafficFirst ELSE pedestriansFirst
         IN  /\ roadNetwork' = w.roadNetwork
             /\ sidewalks' = w.sidewalks
             /\ crosswalks' = w.crosswalks
             /\ intersections' = w.intersections
             /\ vehicles' = w.vehicles
             /\ tickLog' = w.tickLog
             /\ lightLog' = w.lightLog
             /\ pedestrians' = w.pedestrians
             /\ pedLog' = w.pedLog
             /\ frameLog' = FrameLogOf(frameLog.n + 1, order,
                                       IF order = "traffic-first"
                                       THEN pedestriansFirst ELSE trafficFirst)
    /\ UNCHANGED <<trafficPc, pedPc>>

----------------------------------------------------------------------------
(* City: window grids and the day/night window lights                      *)
(*                                                                         *)
(* Intensities are in hundredths.  A window mesh is identified by its      *)
(* index in creation order and holds a reference to one of the two         *)
(* material objects of this.materials; emissiveIntensity is a property of  *)
(* the material object.  Window positions are not modelled.                *)

\* Most columns createWindowGrid is called with.
MaxColumns == 1

\* The rows and columns createWindowGrid is called with.
WindowGrids == [rows : {1}, columns : 1..MaxColumns]

\* Windows of one call: rows * columns on each of the four faces.
windowCount(grid) == 4 * grid.rows * grid.columns

\* this.materials.windowLit.emissiveIntensity as constructed, in hundredths
windowLitIntensity == 60

\* 0.4 + Math.random() * 0.6
WindowIntensities == {40 + (r * 60) \div 100 : r \in RandomDraws}

\* One iteration of the inner loop of createWindowsOnFace: isLit is
\* Math.random() < 0.3.
CreateWindow ==
    /\ winPc = "grid"
    /\ Len(windows) < windowCount(winGrid)
    /\ \E isLit \in BOOLEAN, intensity \in WindowIntensities :
         /\ windows' = Append(windows, IF isLit THEN "windowLit" ELSE "glassWindow")
         /\ windowLights' =
              IF isLit
              THEN Append(windowLights, [mesh |-> Len(windows) + 1, intensity |-> intensity])
              ELSE windowLights
    /\ winLog' = "createWindow"
    /\ UNCHANGED <<winPc, winGrid, emissiveIntensity>>

\* createWindowGrid returns after the fourth face.
WindowGridDone ==
    /\ winPc = "grid"
    /\ Len(windows) = windowCount(winGrid)
    /\ winPc' = "done"
    /\ winLog' = "createWindowGrid"
    /\ UNCHANGED <<winGrid, windows, windowLights, emissiveIntensity>>

\* isDaytime ? 0 : windowLight.intensity
litIntensity(isDaytime, intensity) == IF isDaytime THEN 0 ELSE intensity

\* updateWindowLights(isDaytime): the forEach over this.windowLights, entry
\* k assigning windowLight.mesh.material.emissiveIntensity.
RECURSIVE updateWindowLights(_, _, _, _, _)
updateWindowLights(emissive, meshes, lights, isDaytime, k) ==
    IF k > Len(lights) THEN emissive
    ELSE updateWindowLights(
            [emissive EXCEPT ![meshes[lights[k].mesh]] =
                                litIntensity(isDaytime, lights[k].intensity)],
            meshes, lights, isDaytime, k + 1)

UpdateWindowLights ==
    /\ winPc = "done"
    /\ \E isDaytime \in BOOLEAN :
         /\ emissiveIntensity' =
              updateWindowLights(emissiveIntensity, windows, windowLights, isDaytime, 1)
         /\ winLog' = IF isDaytime THEN "day" ELSE "night"
    /\ UNCHANGED <<winPc, winGrid, windows, windowLights>>

\* The emissive intensity window mesh w is rendered with.
shownIntensity(w) == emissiveIntensity[windows[w]]

----------------------------------------------------------------------------
(* City: landmarks and the building generator                              *)
(*                                                                         *)
(* City.initialize() runs createLandmarkBuildings() and then               *)
(* createBuildings().  Positions are doubled.  The meshes the generators   *)
(* build are not modelled: buildLog keeps the block base of the last       *)
(* createBuildingsOnBlock call, whether it returned at the reservation     *)
(* test, and the generator it dispatched to.                               *)

\* Largest blockCount the building generator is run with.
MaxBuildBlockCount == 8

\* The shipped configuration (5 blocks per side) and an even grid large
\* enough to hold block index 3.
BuildConfigs ==
    {[citySize |-> s, blockSize |-> 50, roadWidth |-> roadWidth,
      sidewalkWidth |-> sidewalkWidth] :
        s \in {citySize, MaxBuildBlockCount * (50 + roadWidth)}}

\* createLandmarkBuildings: the five positions pushed, in order (doubled)
createLandmarkBuildings(c) ==
    LET p2 == 2 * (c.blockSize + c.roadWidth)
    IN  <<Point(0, 0), Point(2 * p2, -1 * p2), Point(-2 * p2, 3 * p2),
          Point(3 * p2, 2 * p2), Point(2 * p2, 3 * p2)>>

\* Math.abs(pos.x - baseX) < 1 && Math.abs(pos.z - baseZ) < 1, doubled
nearLandmark(pos, baseX2, baseZ2) ==
    /\ Abs(pos.x - baseX2) < 2
    /\ Abs(pos.z - baseZ2) < 2

\* landmarkPositions.some(...)
isLandmarkPosition(positions, baseX2, baseZ2) ==
    \E i \in 1..Len(positions) : nearLandmark(positions[i], baseX2, baseZ2)

\* The zone draw of createBuildingsOnBlock; distanceFromCenter < d is
\* x^2 + z^2 < d^2, and with doubled indices x2^2 + z2^2 < 4 d^2.
blockType(x2, z2, r1, r2, r3) ==
    LET d2 == x2 * x2 + z2 * z2
    IN  IF d2 < 4 * 3 * 3
        THEN IF r1 < 70 THEN "skyscraper"
             ELSE IF r2 < 50 THEN "commercial" ELSE "park"
        ELSE IF d2 < 4 * 5 * 5
        THEN IF r1 < 30 THEN "skyscraper"
             ELSE IF r2 < 60 THEN "commercial" ELSE "residential"
        ELSE IF r1 < 10 THEN "skyscraper"
             ELSE IF r2 < 30 THEN "commercial"
             ELSE IF r3 < 80 THEN "residential" ELSE "park"

BuildLogOf(baseX2, baseZ2, skipped, built) ==
    [base |-> Point(baseX2, baseZ2), skipped |-> skipped, built |-> built]

NoBuild == BuildLogOf(0, 0, FALSE, "none")

\* createBuildingsOnBlock(blockX, blockZ): what the call did
createBuildingsOnBlock(positions, c, x2, z2, r1, r2, r3) ==
    IF isLandmarkPosition(positions, base2(c, x2), base2(c, z2))
    THEN BuildLogOf(base2(c, x2), base2(c, z2), TRUE, "none")
    ELSE BuildLogOf(base2(c, x2), base2(c, z2), FALSE,
                    blockType(x2, z2, r1, r2, r3))

\* initialize(): createLandmarkBuildings()
CreateLandmarkBuildings ==
    /\ bldPc = "landmarks"
    /\ landmarkPositions' = landmarkPositions \o createLandmarkBuildings(cfg)
    /\ bldPc' = "buildings"
    /\ UNCHANGED <<buildX2, buildZ2, buildLog>>

\* One iteration of the inner loop of createBuildings.
CreateBuildingsStep ==
    /\ bldPc = "buildings"
    /\ GridInRange(cfg, buildX2) /\ GridInRange(cfg, buildZ2)
    /\ \E r1 \in RandomDraws, r2 \in RandomDraws, r3 \in RandomDraws :
         buildLog' = createBuildingsOnBlock(landmarkPositions, cfg, buildX2, buildZ2,
                                            r1, r2, r3)
    /\ IF GridInRange(cfg, buildZ2 + 2)
       THEN buildZ2' = buildZ2 + 2 /\ buildX2' = buildX2
       ELSE buildZ2' = GridStart2(cfg) /\ buildX2' = buildX2 + 2
    /\ UNCHANGED <<bldPc, landmarkPositions>>

\* createBuildings returns once the outer loop condition fails.
CreateBuildingsDone ==
    /\ bldPc = "buildings"
    /\ ~(GridInRange(cfg, buildX2) /\ GridInRange(cfg, buildZ2))
    /\ bldPc' = "done"
    /\ UNCHANGED <<landmarkPositions, buildX2, buildZ2, buildLog>>

----------------------------------------------------------------------------
(* Claims on the grid builder *)

\* The end of a segment lies on the outermost city boundary: beyond the
\* centre of the last block of the grid along x or z.
EndOnBoundary(c, road) ==
    \/ road.end.x > base2(c, blockCount(c) - 2)
    \/ road.end.z > base2(c, blockCount(c) - 2)

\* C3: in the road network produced by the grid builder, every segment whose
\* end is not on the outermost boundary has another segment whose start lies
\* within 0.5 units of that end (findNextRoad finds a successor).
RoadGraphClosure ==
    cityPc = "done" =>
        \A i \in 1..Len(roadNetwork) :
            ~EndOnBoundary(cfg, roadNetwork[i]) =>
                possibleRoads(roadNetwork, roadNetwork[i]) \ {i} # {}

\* C10: createGridSystem generates exactly N^2 blocks, one sidewalk zone each,
\* for even and odd N = floor(S / (B + R)); the zones are pushed row by row,
\* so zones k and k+1 (same x row) and zones k and k+N are grid neighbours,
\* and their centres differ by exactly B + R along one axis and 0 along the
\* other.
GridCoverage ==
    cityPc = "done" =>
        LET n == blockCount(cfg)
            pitch2 == 2 * (cfg.blockSize + cfg.roadWidth)
        IN  /\ Len(sidewalks) = n * n
            /\ Len(roadNetwork) = 2 * n * n
            /\ \A k \in 1..Len(sidewalks) :
                 /\ (k % n # 0 /\ k + 1 <= Len(sidewalks)) =>
                        /\ sidewalks[k + 1].z - sidewalks[k].z = pitch2
                        /\ sidewalks[k + 1].x = sidewalks[k].x
                 /\ k + n <= Len(sidewalks) =>
                        /\ sidewalks[k + n].x - sidewalks[k].x = pitch2
                        /\ sidewalks[k + n].z = sidewalks[k].z

\* C10 witness: a finished grid with an odd block count whose city size is
\* not a multiple of the block pitch, nine zones laid out.
GridCoverageWitness ==
    /\ cityPc = "done"
    /\ blockCount(cfg) = 3
    /\ cfg.citySize % (cfg.blockSize + cfg.roadWidth) # 0
    /\ Len(sidewalks) = 9

----------------------------------------------------------------------------
(* Claims on Traffic *)

\* The light denied vehicle i on the last update: it reached the end of its
\* road, findNextRoad returned a road and checkTrafficLight answered false.
Denied(log) == log.reached /\ log.nextRoad # 0 /\ ~log.canProceed

\* C1: the stored progress of every vehicle is within [0, 1] after
\* createVehicles and after every updateVehicle call, whatever the delta.
ProgressBound ==
    \A i \in 1..Len(vehicles) :
        vehicles[i].progress >= 0 /\ vehicles[i].progress <= 100

\* C1 witness: an update whose delta carried a vehicle past the end of its
\* road and into a red light, the stored progress still within [0, 1].
ProgressBoundWitness ==
    \E i \in 1..Len(vehicles) :
        /\ Denied(tickLog[i])
        /\ vehicles[i].progress >= 0 /\ vehicles[i].progress <= 100

\* C2: on an update in which a vehicle reaches the end of its road and the
\* light denies the chosen next road, the vehicle stays on its road and its
\* stored progress afterwards is at most 0.98.
LightGating ==
    [][\A i \in 1..Len(vehicles) :
          (trafficPc = "running" /\ Denied(tickLog'[i])) =>
              /\ vehicles'[i].road = vehicles[i].road
              /\ vehicles'[i].progress <= 98]_vars

ReachedEnd(i) == trafficPc = "running" /\ tickLog'[i].reached

\* C16: a vehicle that reaches the end of its road and is given a successor
\* by findNextRoad moves to that successor (at progress 0) on this update
\* exactly if the successor's direction is the state, after this update's
\* light step, of the intersection located at the end of the road it was on.
LightPermission ==
    [][\A i \in 1..Len(vehicles) :
          (ReachedEnd(i) /\ tickLog'[i].nextRoad # 0) =>
              LET currentRoad == roadNetwork[vehicles[i].road]
                  nextRoad == roadNetwork[tickLog'[i].nextRoad]
                  atEnd == {k \in 1..Len(intersections') :
                              /\ intersections'[k].x = currentRoad.end.x
                              /\ intersections'[k].z = currentRoad.end.z}
              IN  /\ atEnd # {}
                  /\ \A k \in atEnd :
                       (/\ vehicles'[i].road = tickLog'[i].nextRoad
                        /\ vehicles'[i].progress = 0)
                         <=> nextRoad.direction = intersections'[k].state]_vars

\* C16 witness: on the junction network a vehicle has just moved into the
\* east-west street that starts at (0, 0), where the north-south street
\* ends too, on a light showing east-west.
LightPermissionWitness ==
    /\ roadNetwork = JunctionNetwork
    /\ \E i \in 1..Len(vehicles) :
         /\ tickLog[i].reached /\ tickLog[i].canProceed
         /\ tickLog[i].nextRoad = 1
         /\ vehicles[i].road = 1 /\ vehicles[i].progress = 0
         /\ \E k \in 1..Len(intersections) :
              /\ intersections[k].x = 0 /\ intersections[k].z = 0
              /\ intersections[k].state = "east-west"
              /\ 3 \in {intersections[k].roads[j] : j \in 1..Len(intersections[k].roads)}

\* C17: when a vehicle reaches the end of a road and no road starts within
\* 0.5 units of that end, findNextRoad returns null and after the update the
\* vehicle is on a road of the network with progress exactly 0.
DeadEndRestart ==
    [][\A i \in 1..Len(vehicles) :
          (/\ ReachedEnd(i)
           /\ \A j \in 1..Len(roadNetwork) :
                LET dx == roadNetwork[j].start.x - roadNetwork[vehicles[i].road].end.x
                    dz == roadNetwork[j].start.z - roadNetwork[vehicles[i].road].end.z
                IN  dx * dx + dz * dz >= 1) =>
              /\ tickLog'[i].nextRoad = 0
              /\ vehicles'[i].road \in 1..Len(roadNetwork)
              /\ vehicles'[i].progress = 0]_vars

\* C17 witness: a vehicle on the grid network has just run into a dead end
\* and was put at the start of the last road of the network.
DeadEndRestartWitness ==
    /\ roadNetwork = GridNetwork
    /\ \E i \in 1..Len(vehicles) :
         /\ tickLog[i].reached /\ tickLog[i].nextRoad = 0
         /\ vehicles[i].road = Len(roadNetwork)
         /\ vehicles[i].progress = 0

\* C18: the road findNextRoad returns, if it is not null, starts within 0.5
\* units of the end of the current road, and its direction differs from the
\* current road's only if no road of the current road's direction starts
\* within 0.5 units of that end.
NextRoadChoice ==
    [][\A i \in 1..Len(vehicles) :
          (ReachedEnd(i) /\ tickLog'[i].nextRoad # 0) =>
              LET currentRoad == roadNetwork[vehicles[i].road]
                  startsAtEnd(j) ==
                      LET dx == roadNetwork[j].start.x - currentRoad.end.x
                          dz == roadNetwork[j].start.z - currentRoad.end.z
                      IN  dx * dx + dz * dz <= 1
              IN  /\ tickLog'[i].nextRoad \in 1..Len(roadNetwork)
                  /\ startsAtEnd(tickLog'[i].nextRoad)
                  /\ roadNetwork[tickLog'[i].nextRoad].direction # currentRoad.direction =>
                        \A j \in 1..Len(roadNetwork) :
                            startsAtEnd(j) =>
                                roadNetwork[j].direction # currentRoad.direction]_vars

\* C18 witness: on the fork network a vehicle that came down the
\* north-south street to (0, 0), where an east-west and a north-south
\* street start, was given the north-south one.
NextRoadChoiceWitness ==
    /\ roadNetwork = ForkNetwork
    /\ \E i \in 1..Len(vehicles) :
         /\ tickLog[i].reached /\ tickLog[i].nextRoad = 4
         /\ tickLog[i].canProceed
         /\ vehicles[i].road = 4 /\ vehicles[i].progress = 0

\* C26: in an update call an intersection's light changes exactly when its
\* timer less the delta is at most 0; it then shows the other state and
\* its timer is set to a value in [10, 15], otherwise the timer is the
\* decremented one; between two toggles of one intersection the deltas
\* add up to at least 10 seconds.
LightCadence ==
    [][trafficPc = "running" =>
          \A k \in 1..Len(intersections) :
              LET before == intersections[k]
                  after == intersections'[k]
                  timer == before.timer - lightLog'.delta
                  toggled == after.state # before.state
              IN  /\ Len(intersections') = Len(intersections)
                  /\ after.state \in LightStates
                  /\ toggled <=> timer <= 0
                  /\ toggled => after.timer >= 10 /\ after.timer <= 15
                  /\ ~toggled => after.timer = timer
                  /\ (toggled /\ lightLog.since[k] # NeverToggled) =>
                         lightLog.since[k] + lightLog'.delta >= 10]_vars

\* C26 witness: an intersection has toggled and 10 seconds of updates have
\* gone by since without another toggle: its timer is still running.
LightCadenceWitness ==
    \E k \in 1..Len(intersections) :
        /\ lightLog.since[k] # NeverToggled
        /\ lightLog.since[k] >= 10
        /\ intersections[k].timer > 0

\* C27: after initializeTrafficLights there is exactly one intersection per
\* distinct rounded end coordinate, every segment is in the incident list
\* of exactly one intersection, and for every segment checkTrafficLight
\* finds a controlling intersection within 0.5 units of the segment's end.
IntersectionsFromRoads ==
    trafficPc = "running" =>
        /\ Len(intersections) = Cardinality({endKey(roadNetwork[j]) : j \in 1..Len(roadNetwork)})
        /\ \A k, m \in 1..Len(intersections) :
              k # m => <<round(intersections[k].x), round(intersections[k].z)>>
                         # <<round(intersections[m].x), round(intersections[m].z)>>
        /\ \A j \in 1..Len(roadNetwork) :
              /\ Cardinality({k \in 1..Len(intersections) :
                                \E n \in 1..Len(intersections[k].roads) :
                                    intersections[k].roads[n] = j}) = 1
              /\ controllingIntersection(intersections, roadNetwork[j]) # 0

\* C25: a vehicle the light holds at the end of its road, a successor
\* being there, eventually moves onto a successor as simulated time
\* advances.
HeldVehicleMoves ==
    \A i \in 1..MaxVehicles :
        (Len(vehicles) >= i /\ Denied(tickLog[i]))
            ~> (Len(vehicles) >= i /\ tickLog[i].reached /\ tickLog[i].canProceed
                  /\ vehicles[i].road = tickLog[i].nextRoad)

\* C25 witness: the vehicle, held by the light in the call before, has
\* left the north-south street for the east-west street in the call in
\* which the light of the junction turned to east-west.
HeldVehicleMovesWitness ==
    \E i \in 1..Len(vehicles) :
        /\ tickLog[i].held
        /\ tickLog[i].reached /\ tickLog[i].canProceed
        /\ tickLog[i].nextRoad = 1 /\ vehicles[i].road = 1
        /\ \E k \in 1..Len(intersections) :
              /\ intersections[k].x = 0 /\ intersections[k].z = 0
              /\ intersections[k].state = "east-west"
              /\ lightLog.since[k] = 0
              /\ lightLog.delta > 0

----------------------------------------------------------------------------
(* Claims on LevelOfDetail *)

\* C4: activateBlock called twice in a row for a registered block leaves the
\* stored buildings list (and everything else) as the first call left it and
\* invokes createBuildingsFn at most once over the two calls;
\* deactivateBlock on an inactive block or an unknown key changes nothing.
ActivationIdempotent ==
    [][/\ (lodLog'.op = "activate" /\ lodLog'.again
             /\ has(blockRegistry, lodLog'.key)) =>
            /\ blockRegistry' = blockRegistry
            /\ activeBlocks' = activeBlocks
            /\ stats' = stats
            /\ scene' = scene
            /\ lodLog.buildCalls + lodLog'.buildCalls <= 1
       /\ (lodLog'.op = "deactivate"
             /\ (has(blockRegistry, lodLog'.key) =>
                   ~get(blockRegistry, lodLog'.key).isActive)) =>
            /\ blockRegistry' = blockRegistry
            /\ activeBlocks' = activeBlocks
            /\ stats' = stats
            /\ scene' = scene]_vars

\* C4 witness: activateBlock has just been called a second time in a row on
\* a block whose factory makes buildings; the block holds them once.
ActivationIdempotentWitness ==
    /\ lodLog.op = "activate" /\ lodLog.again
    /\ has(blockRegistry, lodLog.key)
    /\ get(blockRegistry, lodLog.key).isActive
    /\ Len(get(blockRegistry, lodLog.key).buildings) = MaxBuildings
    /\ stats.activeBuildings = MaxBuildings

\* The block with base position (100, 100) was active when the last scan
\* started, and the scan ran with the camera at (1000, 1000).
FarScan ==
    /\ lodLog.op = "updateVisibility"
    /\ 2 * (cfg.blockSize + cfg.roadWidth) = 100
    /\ <<2, 2>> \in lodLog.activeBefore
    /\ camera = Point(1000, 1000)

\* C5: the active block at (100, 100) is deactivated but still registered
\* after one update cycle with the camera at (1000, 1000).
FarBlockStaysRegistered ==
    FarScan => /\ has(blockRegistry, <<2, 2>>)
               /\ ~get(blockRegistry, <<2, 2>>).isActive

\* C5 as amended: (1000, 1000) is more than blockRegistryDistance away from
\* (100, 100), so that update cycle unregisters the block: its buildings
\* leave the scene and its record is dropped.  A block that was active and
\* is, seen from the camera, beyond viewDistance but not beyond
\* blockRegistryDistance is deactivated by the scan and stays registered.
FarBlockUnregistered ==
    /\ FarScan =>
         /\ ~has(blockRegistry, <<2, 2>>)
         /\ <<2, 2>> \notin activeBlocks
         /\ \A h \in scene : h.block # <<2, 2>>
         /\ lodLog.ops[<<2, 2>>] = <<"unregister">>
    /\ lodLog.op = "updateVisibility" =>
         \A k \in lodLog.activeBefore :
            LET dx == k[1] * (cfg.blockSize + cfg.roadWidth) - camera.x
                dz == k[2] * (cfg.blockSize + cfg.roadWidth) - camera.z
            IN  (/\ dx * dx + dz * dz > 360000
                 /\ dx * dx + dz * dz <= 1440000) =>
                    /\ has(blockRegistry, k)
                    /\ ~get(blockRegistry, k).isActive
                    /\ lodLog.ops[k] = <<"deactivate">>

\* C5 witness: that scan has run; the block at (100, 100) is gone while the
\* block at (600, 0), also active before, is deactivated and registered.
FarBlockUnregisteredWitness ==
    /\ FarScan
    /\ ~has(blockRegistry, <<2, 2>>)
    /\ <<12, 0>> \in lodLog.activeBefore
    /\ has(blockRegistry, <<12, 0>>)
    /\ ~get(blockRegistry, <<12, 0>>).isActive

\* C6: right after updateVisibility every registered block is active exactly
\* if its squared distance to the camera is at most viewDistance^2, no
\* registered block is beyond blockRegistryDistance, and the scan took at
\* most one of the branches unregister / activate / deactivate per block.
ScanPostcondition ==
    lodLog.op = "updateVisibility" =>
        /\ \A i \in 1..Len(blockRegistry) :
             LET dx == blockRegistry[i].baseX - camera.x
                 dz == blockRegistry[i].baseZ - camera.z
             IN  /\ blockRegistry[i].isActive <=> dx * dx + dz * dz <= 360000
                 /\ dx * dx + dz * dz <= 1440000
        /\ \A k \in BlockKeys : Len(lodLog.ops[k]) <= 1

\* C6 witness: one scan that activated a block at exactly viewDistance,
\* deactivated a block at exactly blockRegistryDistance and unregistered
\* a third.
ScanPostconditionWitness ==
    /\ lodLog.op = "updateVisibility"
    /\ camera = Point(1800, 0)
    /\ lodLog.ops[<<2, 2>>] = <<"unregister">>
    /\ lodLog.ops[<<12, 0>>] = <<"deactivate">>
    /\ lodLog.ops[<<24, 0>>] = <<"activate">>

\* C7: registerBlock never invokes createBuildingsFn and adds nothing to the
\* scene; a newly registered block is inactive with an empty buildings
\* list; registering a registered key leaves the registry (the record's
\* factory, buildings and active flag) and the counters unchanged.
RegisterLazy ==
    [][lodLog'.op = "register" =>
         /\ lodLog'.buildCalls = 0
         /\ scene' = scene
         /\ activeBlocks' = activeBlocks
         /\ IF has(blockRegistry, lodLog'.key)
            THEN blockRegistry' = blockRegistry /\ stats' = stats
            ELSE /\ has(blockRegistry', lodLog'.key)
                 /\ ~get(blockRegistry', lodLog'.key).isActive
                 /\ get(blockRegistry', lodLog'.key).buildings = <<>>
                 /\ stats' = [stats EXCEPT !.totalBlocks = @ + 1]]_vars

\* C7 witness: registerBlock has just been called with the key of a block
\* that is active and holds buildings.
RegisterLazyWitness ==
    /\ lodLog.op = "register"
    /\ has(blockRegistry, lodLog.key)
    /\ get(blockRegistry, lodLog.key).isActive
    /\ Len(get(blockRegistry, lodLog.key).buildings) = MaxBuildings

\* C8: every handle in the scene belongs to the stored list of a registered,
\* active block: none remains for a block that is inactive or unregistered,
\* and an inactive block's stored list is empty.
NoHandleLeak ==
    /\ \A h \in scene :
         /\ has(blockRegistry, h.block)
         /\ get(blockRegistry, h.block).isActive
         /\ \E i \in 1..Len(get(blockRegistry, h.block).buildings) :
                get(blockRegistry, h.block).buildings[i] = h
    /\ \A i \in 1..Len(blockRegistry) :
         ~blockRegistry[i].isActive => blockRegistry[i].buildings = <<>>

\* C8 witness: deactivateBlock has just been called on a block that had been
\* activated with a factory that makes buildings; the scene is empty.
NoHandleLeakWitness ==
    /\ lodLog.op = "deactivate" /\ ~lodLog.again
    /\ has(blockRegistry, lodLog.key)
    /\ ~get(blockRegistry, lodLog.key).isActive
    /\ get(blockRegistry, lodLog.key).buildingsCounted
    /\ get(blockRegistry, lodLog.key).createBuildingsFn = MaxBuildings
    /\ stats.totalBuildings = MaxBuildings
    /\ scene = {}

\* C13: update() drops a block from the registry only when its squared
\* distance to the camera exceeds blockRegistryDistance^2; whenever a block
\* is unregistered, by the scan or by unregisterBlock, and was active, it is
\* deactivated first: none of its handles stays in the scene and the
\* active counters go down with it; after unregisterBlock(key) the key is
\* neither in the registry nor in the active set.
UnregisterDiscipline ==
    [][/\ lodLog'.op \in {"update", "updateVisibility"} =>
            \A k \in BlockKeys :
                (has(blockRegistry, k) /\ ~has(blockRegistry', k)) =>
                    /\ lodLog'.op = "updateVisibility"
                    /\ distanceSquared(get(blockRegistry, k), camera)
                         > blockRegistryDistance * blockRegistryDistance
       /\ lodLog'.op \in {"unregister", "updateVisibility"} =>
            \A k \in BlockKeys :
                (has(blockRegistry, k) /\ ~has(blockRegistry', k)) =>
                    /\ k \notin activeBlocks'
                    /\ {h \in scene' : h.block = k} = {}
                    /\ Cardinality(activeBlocks') = stats'.activeBlocks
       /\ lodLog'.op = "unregister" =>
            /\ ~has(blockRegistry', lodLog'.key)
            /\ lodLog'.key \notin activeBlocks'
            /\ (has(blockRegistry, lodLog'.key) =>
                  /\ stats'.totalBlocks = stats.totalBlocks - 1
                  /\ stats'.activeBuildings = stats.activeBuildings
                        - Len(get(blockRegistry, lodLog'.key).buildings))]_vars

\* C13 witness: a scan has just unregistered a block that was active when
\* the scan started; the block, its handles and its active flag are gone,
\* while a block that is exactly blockRegistryDistance away is still there.
UnregisterDisciplineWitness ==
    /\ lodLog.op = "updateVisibility"
    /\ camera = Point(1800, 0)
    /\ has(blockRegistry, <<12, 0>>)
    /\ \E k \in lodLog.activeBefore :
         /\ lodLog.ops[k] = <<"unregister">>
         /\ ~has(blockRegistry, k)
         /\ k \notin activeBlocks
         /\ \A h \in scene : h.block # k

\* C19: update(deltaTime) scans only on a call where the accumulated time
\* reaches updateFrequency, and then the accumulator is 0 afterwards and
\* every block was visited at most once, however large deltaTime is; on a
\* call below the threshold the time is added to the accumulator and the
\* registry, the active set, the scene and the counters are unchanged.
ScanCadence ==
    [][/\ lodLog'.op = "updateVisibility" =>
            /\ updateTimer + lodLog'.deltaTime >= updateFrequency
            /\ updateTimer' = 0
            /\ \A k \in BlockKeys : Len(lodLog'.ops[k]) <= 1
            /\ lodLog'.buildCalls <= Len(blockRegistry)
       /\ lodLog'.op = "update" =>
            /\ updateTimer + lodLog'.deltaTime < updateFrequency
            /\ updateTimer' = updateTimer + lodLog'.deltaTime
            /\ blockRegistry' = blockRegistry
            /\ activeBlocks' = activeBlocks
            /\ scene' = scene
            /\ stats' = stats]_vars

\* C19 witness: the second of two update(0.3) calls has just scanned and
\* changed a block; the accumulator is back at 0.
ScanCadenceWitness ==
    /\ lodLog.op = "updateVisibility"
    /\ lodLog.deltaTime < updateFrequency
    /\ updateTimer = 0
    /\ \E k \in BlockKeys : lodLog.ops[k] # <<>>

\* C20: activateBlock on a registered, inactive block whose factory returns
\* an empty list makes the block active with an empty buildings list, adds
\* nothing to the scene and leaves totalBuildings and activeBuildings as
\* they were; deactivateBlock on such an active block makes it inactive
\* again, with the same counters and the same scene.
EmptyActivation ==
    [][\A k \in BlockKeys :
          (/\ lodLog'.key = k
           /\ has(blockRegistry, k)
           /\ get(blockRegistry, k).createBuildingsFn = 0) =>
              /\ (lodLog'.op = "activate" /\ ~get(blockRegistry, k).isActive) =>
                    /\ has(blockRegistry', k)
                    /\ get(blockRegistry', k).isActive
                    /\ get(blockRegistry', k).buildings = <<>>
                    /\ activeBlocks' = activeBlocks \cup {k}
                    /\ stats'.totalBuildings = stats.totalBuildings
                    /\ stats'.activeBuildings = stats.activeBuildings
                    /\ stats'.activeBlocks = stats.activeBlocks + 1
                    /\ scene' = scene
              /\ (lodLog'.op = "deactivate" /\ get(blockRegistry, k).isActive) =>
                    /\ has(blockRegistry', k)
                    /\ ~get(blockRegistry', k).isActive
                    /\ get(blockRegistry', k).buildings = <<>>
                    /\ activeBlocks' = activeBlocks \ {k}
                    /\ stats'.totalBuildings = stats.totalBuildings
                    /\ stats'.activeBuildings = stats.activeBuildings
                    /\ stats'.activeBlocks = stats.activeBlocks - 1
                    /\ scene' = scene]_vars

\* C20 witness: deactivateBlock has just been called on a block whose
\* factory returns an empty list and which had been activated; the block
\* is inactive and no building was ever counted.
EmptyActivationWitness ==
    /\ lodLog.op = "deactivate" /\ ~lodLog.again
    /\ has(blockRegistry, lodLog.key)
    /\ get(blockRegistry, lodLog.key).createBuildingsFn = 0
    /\ get(blockRegistry, lodLog.key).buildingsCounted
    /\ ~get(blockRegistry, lodLog.key).isActive
    /\ lodLog.key \notin activeBlocks
    /\ stats.totalBuildings = 0

\* The number of buildings stored in the records reg[1..n] that are active.
RECURSIVE StoredInActive(_, _)
StoredInActive(reg, n) ==
    IF n = 0 THEN 0
    ELSE StoredInActive(reg, n - 1)
           + (IF reg[n].isActive THEN Len(reg[n].buildings) ELSE 0)

\* C28: after any sequence of registerBlock, activateBlock,
\* deactivateBlock, unregisterBlock and update calls activeBlocks is the
\* set of registered keys whose record is active, stats.activeBlocks is
\* its size, stats.totalBlocks the size of the registry,
\* stats.activeBuildings the number of buildings stored in active blocks,
\* and the list of every inactive block is empty.
CountersAgree ==
    /\ activeBlocks = {blockRegistry[i].key :
                         i \in {j \in 1..Len(blockRegistry) : blockRegistry[j].isActive}}
    /\ stats.activeBlocks = Cardinality(activeBlocks)
    /\ stats.totalBlocks = Len(blockRegistry)
    /\ \A i, j \in 1..Len(blockRegistry) :
          blockRegistry[i].key = blockRegistry[j].key => i = j
    /\ stats.activeBuildings = StoredInActive(blockRegistry, Len(blockRegistry))
    /\ \A i \in 1..Len(blockRegistry) :
          blockRegistry[i].isActive \/ Len(blockRegistry[i].buildings) = 0

\* C28 witness: of two registered blocks one is active with its buildings
\* stored, the other has just been deactivated after having been active.
CountersAgreeWitness ==
    /\ lodLog.op = "deactivate" /\ ~lodLog.again
    /\ Len(blockRegistry) = 2
    /\ stats.activeBlocks = 1
    /\ stats.activeBuildings = MaxBuildings
    /\ has(blockRegistry, lodLog.key)
    /\ get(blockRegistry, lodLog.key).buildingsCounted
    /\ get(blockRegistry, lodLog.key).createBuildingsFn = MaxBuildings

\* Block k, registered or not, lies within viewDistance of the camera.
InView(k) ==
    LET pitch == cfg.blockSize + cfg.roadWidth
    IN  (k[1] * pitch - camera.x) * (k[1] * pitch - camera.x)
          + (k[2] * pitch - camera.z) * (k[2] * pitch - camera.z)
          <= viewDistance * viewDistance

\* C30: a block the registry does not have is neither registered nor
\* activated by update(), wherever the camera is; only registerBlock
\* called with its key brings it back, as an inactive record with an empty
\* list.
EvictionPermanent ==
    [][\A k \in BlockKeys :
          ~has(blockRegistry, k) =>
              IF lodLog'.op = "register" /\ lodLog'.key = k
              THEN /\ has(blockRegistry', k)
                   /\ ~get(blockRegistry', k).isActive
                   /\ get(blockRegistry', k).buildings = <<>>
                   /\ ~get(blockRegistry', k).buildingsCounted
                   /\ k \notin activeBlocks'
              ELSE /\ ~has(blockRegistry', k)
                   /\ k \notin activeBlocks'
                   /\ \A h \in scene' : h.block # k]_vars

\* C30 witness: update() has just scanned with the camera within
\* viewDistance of a block that is no longer registered; the registry is
\* empty, stats.totalBuildings shows that a block had its buildings made,
\* and the scan did nothing.
EvictionPermanentWitness ==
    /\ lodLog.op = "updateVisibility"
    /\ blockRegistry = <<>>
    /\ stats.totalBuildings >= MaxBuildings
    /\ \E k \in BlockKeys : InView(k)
    /\ scene = {} /\ activeBlocks = {}
    /\ \A k \in BlockKeys : lodLog.ops[k] = <<>>

----------------------------------------------------------------------------
(* Claims on Pedestrians *)

\* C9: a pedestrian in state crossing whose path is empty or whose
\* targetPosition is null is, after one updatePedestrian call, idle with a
\* wait time within [1, 5] seconds; the call does not fail and leaves the
\* pedestrian's position as it was.
CrossingRecovery ==
    [][\A i \in 1..Len(pedestrians) :
          (/\ pedLog'[i].op = "update"
           /\ pedestrians[i].state = "crossing"
           /\ (pedestrians[i].targetPosition = <<>> \/ Len(pedestrians[i].path) = 0)) =>
              /\ ~pedLog'[i].threw
              /\ pedestrians'[i].state = "idle"
              /\ pedestrians'[i].waitTime >= 10
              /\ pedestrians'[i].waitTime <= 50
              /\ pedestrians'[i].position = pedestrians[i].position]_vars

\* C9 witness: a pedestrian that was crossing with a path left but its
\* targetPosition set to null has been updated and is idle.
CrossingRecoveryWitness ==
    \E i \in 1..Len(pedestrians) :
        /\ pedLog[i].op = "update" /\ pedLog[i].inconsistent
        /\ ~pedLog[i].threw
        /\ pedestrians[i].state = "idle"
        /\ pedestrians[i].targetPosition = <<>>
        /\ Len(pedestrians[i].path) > 0

\* The state changes one update call may make to a pedestrian.
StateChanges ==
    {<<"idle", "walking">>, <<"idle", "crossing">>,
     <<"walking", "idle">>, <<"crossing", "idle">>}

\* C21: across the update calls a pedestrian's state changes only along
\* idle -> walking, idle -> crossing, walking -> idle and crossing -> idle;
\* a pedestrian is created idle and no pedestrian is ever waiting.
BehaviourMachine ==
    /\ [](\A i \in 1..Len(pedestrians) : pedestrians[i].state # "waiting")
    /\ [][\A i \in 1..Len(pedestrians') :
             IF Len(pedestrians) < i
             THEN pedestrians'[i].state = "idle"
             ELSE \/ pedestrians'[i].state = pedestrians[i].state
                  \/ <<pedestrians[i].state, pedestrians'[i].state>> \in StateChanges]_vars

\* C21 witness: an update call has brought a moving pedestrian back to
\* idle at the target it was heading for.
BehaviourMachineWitness ==
    \E i \in 1..Len(pedestrians) :
        /\ pedLog[i].op = "update"
        /\ pedestrians[i].state = "idle"
        /\ pedestrians[i].targetPosition = <<pedestrians[i].position>>

\* The crosswalks nearest to a position among those less than 30 units
\* (300 tenths) from it.
NearestWithin30(position) ==
    LET dist(j) == distanceToSquared(Point(Tenths(crosswalks[j].x), Tenths(crosswalks[j].z)),
                                     position)
    IN  {j \in 1..Len(crosswalks) :
            /\ dist(j) < 90000
            /\ \A k \in 1..Len(crosswalks) : dist(j) <= dist(k)}

\* Sidewalk k lies across crosswalk j from sidewalk s.
QualifiesAsOpposite(k, s, j) ==
    LET dx == Abs(Tenths(sidewalks[k].x) - Tenths(sidewalks[s].x))
        dz == Abs(Tenths(sidewalks[k].z) - Tenths(sidewalks[s].z))
    IN  /\ k # s
        /\ IF crosswalks[j].direction = "east-west"
           THEN dx < 300 /\ 50 < dz /\ dz < 1000
           ELSE dz < 300 /\ 50 < dx /\ dx < 1000

\* A point within the rectangle of sidewalk s.
OnSidewalk(point, s) ==
    /\ 2 * Abs(point.x - Tenths(sidewalks[s].x)) <= Tenths(sidewalks[s].width)
    /\ 2 * Abs(point.z - Tenths(sidewalks[s].z)) <= Tenths(sidewalks[s].depth)

\* C22: an idle pedestrian whose timer expires and that draws crossing
\* ends the call crossing with a path of three points exactly when a
\* crosswalk lies within 30 units and some other sidewalk qualifies as
\* opposite; otherwise it ends the call walking, with a target on its
\* current sidewalk.
CrossingAttempt ==
    \A i \in 1..Len(pedestrians), delta \in PedDeltas :
        \A d \in UpdateDraws(pedestrians[i]) :
            LET p == pedestrians[i]
                q == updatePedestrian(sidewalks, crosswalks, p, delta, d)
            IN  (p.state = "idle" /\ p.waitTime - delta <= 0 /\ ~d.walk) =>
                    IF \E j \in NearestWithin30(p.position) :
                          \E k \in 1..Len(sidewalks) :
                              QualifiesAsOpposite(k, p.currentSidewalk, j)
                    THEN /\ q.state = "crossing" /\ Len(q.path) = 3
                         /\ q.targetSidewalk # 0 /\ q.currentCrosswalk # 0
                    ELSE /\ q.state = "walking"
                         /\ q.currentSidewalk = p.currentSidewalk
                         /\ Len(q.targetPosition) = 1
                         /\ OnSidewalk(q.targetPosition[1], p.currentSidewalk)

\* C22 witness: a pedestrian standing within 30 units of a crosswalk has
\* just started to cross: its path has its three points and its position
\* is still on its current sidewalk.
CrossingAttemptWitness ==
    \E i \in 1..Len(pedestrians) :
        /\ pedLog[i].op = "update"
        /\ pedestrians[i].state = "crossing" /\ Len(pedestrians[i].path) = 3
        /\ NearestWithin30(pedestrians[i].position) # {}
        /\ OnSidewalk(pedestrians[i].position, pedestrians[i].currentSidewalk)

\* A point on the outline of crosswalk j.
OnCrosswalk(point, j) ==
    /\ 2 * Abs(point.x - Tenths(crosswalks[j].x)) <= Tenths(crosswalks[j].width)
    /\ 2 * Abs(point.z - Tenths(crosswalks[j].z)) <= Tenths(crosswalks[j].depth)

\* C23: a crossing pedestrian has between one and three path points left
\* and heads for the first of them; a pedestrian that starts to cross gets
\* two distinct points of its crosswalk and a point of the target
\* sidewalk, in this order; each update call either leaves the path alone
\* or puts the pedestrian on the head of the path and removes it; removing
\* the last point makes currentSidewalk the former targetSidewalk,
\* targetSidewalk and currentCrosswalk null and the pedestrian idle.
CrossingPath ==
    /\ [](\A i \in 1..Len(pedestrians) :
             pedestrians[i].state = "crossing" =>
                /\ Len(pedestrians[i].path) \in 1..3
                /\ pedestrians[i].targetPosition = <<pedestrians[i].path[1]>>)
    /\ [][\A i \in 1..Len(pedestrians) :
             LET p == pedestrians[i]
                 q == pedestrians'[i]
             IN  /\ (p.state = "idle" /\ q.state = "crossing") =>
                        /\ Len(q.path) = 3
                        /\ OnCrosswalk(q.path[1], q.currentCrosswalk)
                        /\ OnCrosswalk(q.path[2], q.currentCrosswalk)
                        /\ q.path[1] # q.path[2]
                        /\ OnSidewalk(q.path[3], q.targetSidewalk)
                 /\ (p.state = "crossing" /\ q.state = "crossing") =>
                        \/ q.path = p.path
                        \/ q.path = Tail(p.path) /\ q.position = p.path[1]
                 /\ (p.state = "crossing" /\ q.state = "idle") =>
                        /\ Len(p.path) = 1 /\ q.path = <<>>
                        /\ q.position = p.path[1]
                        /\ q.currentSidewalk = p.targetSidewalk
                        /\ q.targetSidewalk = 0
                        /\ q.currentCrosswalk = 0
                        /\ OnSidewalk(q.position, q.currentSidewalk)]_vars

\* C23 witness: an update call found the pedestrian crossing and left it
\* idle on its new current sidewalk, the path used up.
CrossingPathWitness ==
    \E i \in 1..Len(pedestrians) :
        /\ pedLog[i].op = "update" /\ pedLog[i].before = "crossing"
        /\ pedestrians[i].state = "idle"
        /\ pedestrians[i].path = <<>>
        /\ pedestrians[i].targetSidewalk = 0
        /\ pedestrians[i].currentCrosswalk = 0
        /\ OnSidewalk(pedestrians[i].position, pedestrians[i].currentSidewalk)

\* C24: under repeated update calls every pedestrian that is walking or
\* crossing eventually becomes idle again.
EventuallyIdle ==
    \A i \in 1..MaxPedestrians :
        (Len(pedestrians) >= i /\ pedestrians[i].state \in {"walking", "crossing"})
            ~> (Len(pedestrians) >= i /\ pedestrians[i].state = "idle")

\* C24 witness: an update call found the pedestrian walking, its step
\* covered the rest of the way, and the pedestrian is idle on its target.
EventuallyIdleWitness ==
    \E i \in 1..Len(pedestrians) :
        /\ pedLog[i].op = "update" /\ pedLog[i].before = "walking"
        /\ pedestrians[i].state = "idle"
        /\ pedestrians[i].targetPosition = <<pedestrians[i].position>>
        /\ pedestrians[i].waitTime >= 10

\* C29: currentCrosswalk and targetSidewalk are non-null only while the
\* pedestrian is crossing: an idle or walking pedestrian has both null,
\* also after a crossing attempt that fell back to walking.
CrosswalkOnlyWhileCrossing ==
    \A i \in 1..Len(pedestrians) :
        pedestrians[i].state # "crossing" =>
            /\ pedestrians[i].currentCrosswalk = 0
            /\ pedestrians[i].targetSidewalk = 0

----------------------------------------------------------------------------
(* Claims on the window lights *)

\* C11: every window created lit appears exactly once in windowLights (and
\* no other window does); after updateWindowLights(false) every registered
\* window shows its own stored, non-zero intensity; after
\* updateWindowLights(true) every registered window shows intensity 0.
WindowLightsFollowDaytime ==
    /\ \A w \in 1..Len(windows) :
         Cardinality({k \in 1..Len(windowLights) : windowLights[k].mesh = w})
            = IF windows[w] = "windowLit" THEN 1 ELSE 0
    /\ winLog = "night" =>
         \A k \in 1..Len(windowLights) :
            /\ windowLights[k].intensity # 0
            /\ shownIntensity(windowLights[k].mesh) = windowLights[k].intensity
    /\ winLog = "day" =>
         \A k \in 1..Len(windowLights) : shownIntensity(windowLights[k].mesh) = 0

----------------------------------------------------------------------------
(* Claims on the landmarks *)

\* Some block of the generated grid has its base position at pos.
IsBlockBase(c, pos) ==
    \E k \in 1..(blockCount(c) * blockCount(c)) :
        /\ base2(c, GridBlock2(c, k).x) = pos.x
        /\ base2(c, GridBlock2(c, k).z) = pos.z

\* C12: each of the five landmark positions is the base position of a block
\* of the generated grid; the reservation list is filled before
\* createBuildings runs; and createBuildingsOnBlock builds nothing on a block
\* whose base is within 1 unit of a landmark position.
LandmarkReservation ==
    /\ bldPc \in {"buildings", "done"} =>
         /\ Len(landmarkPositions) = 5
         /\ \A i \in 1..Len(landmarkPositions) :
                IsBlockBase(cfg, landmarkPositions[i])
    /\ (buildLog # NoBuild
          /\ isLandmarkPosition(landmarkPositions, buildLog.base.x,
                                buildLog.base.z)) =>
         buildLog.built = "none"

----------------------------------------------------------------------------
(* Claims on the animation loop *)

\* C14: within a frame Traffic.update(delta) and Pedestrians.update(delta)
\* commute: with the same delta and the same random choices, the vehicles,
\* intersections and pedestrians after the frame are the ones the other
\* order of the two calls leaves, and the frame leaves the road, sidewalk
\* and crosswalk collections as they were.
UpdatesCommute ==
    [][frameLog'.n = frameLog.n + 1 =>
          /\ frameLog'.swapped.vehicles = vehicles'
          /\ frameLog'.swapped.intersections = intersections'
          /\ frameLog'.swapped.pedestrians = pedestrians'
          /\ roadNetwork' = roadNetwork /\ frameLog'.swapped.roadNetwork = roadNetwork
          /\ sidewalks' = sidewalks /\ frameLog'.swapped.sidewalks = sidewalks
          /\ crosswalks' = crosswalks /\ frameLog'.swapped.crosswalks = crosswalks]_vars

\* C14 witness: a second frame has run with pedestrians.update first, a
\* light has a timer drawn in a toggle, a vehicle was restarted or moved on
\* and a pedestrian is away from idle; the other order gives that state.
UpdatesCommuteWitness ==
    /\ frameLog.n = MaxFrames
    /\ frameLog.order = "pedestrians-first"
    /\ frameLog.swapped.vehicles = vehicles
    /\ frameLog.swapped.pedestrians = pedestrians
    /\ \E k \in 1..Len(intersections) : intersections[k].timer \in ResetTimers
    /\ \E i \in 1..Len(vehicles) : tickLog[i].reached
    /\ \E i \in 1..Len(pedestrians) : pedestrians[i].state # "idle"

----------------------------------------------------------------------------
(* Specifications *)

\* City alone: the state after new City(scene), then createGridSystem().
InitCityOnly ==
    /\ cfg \in Configs
    /\ cityPc = "grid"
    /\ gx2 = GridStart2(cfg) /\ gz2 = GridStart2(cfg)
    /\ roadNetwork = <<>> /\ sidewalks = <<>> /\ crosswalks = <<>>
    /\ trafficPc = "off" /\ intersections = <<>> /\ vehicles = <<>> /\ tickLog = <<>>
    /\ lightLog = NoLights
    /\ blockRegistry = <<>> /\ activeBlocks = {} /\ scene = {}
    /\ stats = [totalBuildings |-> 0, activeBuildings |-> 0,
                totalBlocks |-> 0, activeBlocks |-> 0]
    /\ camera = Point(0, 0) /\ updateTimer = 0
    /\ lodLog = LodLogOf("new", NoKey, 0, NoOps, FALSE, {}, 0)
    /\ winPc = "off" /\ winGrid = [rows |-> 1, columns |-> 1]
    /\ windows = <<>> /\ windowLights = <<>> /\ winLog = "new"
    /\ emissiveIntensity = [windowLit |-> windowLitIntensity, glassWindow |-> 0]
    /\ frameLog = NoFrame
    /\ bldPc = "off" /\ landmarkPositions = <<>> /\ buildX2 = 0 /\ buildZ2 = 0
    /\ buildLog = NoBuild
    /\ pedPc = "off" /\ pedestrians = <<>> /\ pedLog = <<>>

NextCity ==
    \/ GridStep /\ UNCHANGED <<trafficVars, lodVars, pedVars, winVars, bldVars, frameVars>>
    \/ GridDone /\ UNCHANGED <<trafficVars, lodVars, pedVars, winVars, bldVars, frameVars>>

SpecCity == InitCityOnly /\ [][NextCity]_vars

\* Traffic alone: the state after new Traffic(scene, roadNetwork), then
\* initialize() and the per-frame update(delta).
InitTraffic ==
    /\ roadNetwork \in RoadNetworks
    /\ trafficPc = "constructed"
    /\ intersections = <<>> /\ vehicles = <<>> /\ tickLog = <<>>
    /\ lightLog = NoLights
    /\ cfg = [citySize |-> citySize, blockSize |-> 50, roadWidth |-> roadWidth,
              sidewalkWidth |-> sidewalkWidth]
    /\ cityPc = "off" /\ gx2 = 0 /\ gz2 = 0
    /\ sidewalks = <<>> /\ crosswalks = <<>>
    /\ blockRegistry = <<>> /\ activeBlocks = {} /\ scene = {}
    /\ stats = [totalBuildings |-> 0, activeBuildings |-> 0,
                totalBlocks |-> 0, activeBlocks |-> 0]
    /\ camera = Point(0, 0) /\ updateTimer = 0
    /\ lodLog = LodLogOf("new", NoKey, 0, NoOps, FALSE, {}, 0)
    /\ winPc = "off" /\ winGrid = [rows |-> 1, columns |-> 1]
    /\ windows = <<>> /\ windowLights = <<>> /\ winLog = "new"
    /\ emissiveIntensity = [windowLit |-> windowLitIntensity, glassWindow |-> 0]
    /\ frameLog = NoFrame
    /\ bldPc = "off" /\ landmarkPositions = <<>> /\ buildX2 = 0 /\ buildZ2 = 0
    /\ buildLog = NoBuild
    /\ pedPc = "off" /\ pedestrians = <<>> /\ pedLog = <<>>

NextTraffic ==
    \/ Initialize /\ UNCHANGED <<cfg, cityPc, gx2, gz2, sidewalks, crosswalks, lodVars, pedVars, winVars, bldVars, frameVars>>
    \/ Update /\ UNCHANGED <<cfg, cityPc, gx2, gz2, sidewalks, crosswalks, lodVars, pedVars, winVars, bldVars, frameVars>>

SpecTraffic == InitTraffic /\ [][NextTraffic]_vars

\* Traffic over a network whose segment ends are not all on whole
\* coordinates: the constructor takes any list of segments.
InitLights ==
    /\ roadNetwork \in {GridNetwork, OffsetNetwork}
    /\ trafficPc = "constructed"
    /\ intersections = <<>> /\ vehicles = <<>> /\ tickLog = <<>>
    /\ lightLog = NoLights
    /\ cfg = [citySize |-> citySize, blockSize |-> 50, roadWidth |-> roadWidth,
              sidewalkWidth |-> sidewalkWidth]
    /\ cityPc = "off" /\ gx2 = 0 /\ gz2 = 0
    /\ sidewalks = <<>> /\ crosswalks = <<>>
    /\ blockRegistry = <<>> /\ activeBlocks = {} /\ scene = {}
    /\ stats = [totalBuildings |-> 0, activeBuildings |-> 0,
                totalBlocks |-> 0, activeBlocks |-> 0]
    /\ camera = Point(0, 0) /\ updateTimer = 0
    /\ lodLog = LodLogOf("new", NoKey, 0, NoOps, FALSE, {}, 0)
    /\ winPc = "off" /\ winGrid = [rows |-> 1, columns |-> 1]
    /\ windows = <<>> /\ windowLights = <<>> /\ winLog = "new"
    /\ emissiveIntensity = [windowLit |-> windowLitIntensity, glassWindow |-> 0]
    /\ frameLog = NoFrame
    /\ bldPc = "off" /\ landmarkPositions = <<>> /\ buildX2 = 0 /\ buildZ2 = 0
    /\ buildLog = NoBuild
    /\ pedPc = "off" /\ pedestrians = <<>> /\ pedLog = <<>>

SpecLights == InitLights /\ [][NextTraffic]_vars

\* Traffic in the animation loop: the state after initialize() over the
\* junction network, the lights drawn alike and the vehicle created with
\* the least speed.
InitTrafficLive ==
    /\ roadNetwork = JunctionNetwork
    /\ trafficPc = "running"
    /\ intersections \in
         {initializeTrafficLights(roadNetwork,
                                  [i \in IntersectionCreators(roadNetwork) |-> state],
                                  [i \in IntersectionCreators(roadNetwork) |-> timer]) :
            state \in LightStates, timer \in InitialTimers}
    /\ vehicles \in
         {[i \in 1..MaxVehicles |->
             createVehicle(randomRoadIndex(roadNetwork, r), progress, vehicleSpeed * 80)] :
            r \in RandomDraws, progress \in RandomDraws}
    /\ tickLog = [i \in 1..MaxVehicles |-> NoLog]
    /\ lightLog = CreatedLights(intersections)
    /\ cfg = [citySize |-> citySize, blockSize |-> 50, roadWidth |-> roadWidth,
              sidewalkWidth |-> sidewalkWidth]
    /\ cityPc = "off" /\ gx2 = 0 /\ gz2 = 0
    /\ sidewalks = <<>> /\ crosswalks = <<>>
    /\ blockRegistry = <<>> /\ activeBlocks = {} /\ scene = {}
    /\ stats = [totalBuildings |-> 0, activeBuildings |-> 0,
                totalBlocks |-> 0, activeBlocks |-> 0]
    /\ camera = Point(0, 0) /\ updateTimer = 0
    /\ lodLog = LodLogOf("new", NoKey, 0, NoOps, FALSE, {}, 0)
    /\ winPc = "off" /\ winGrid = [rows |-> 1, columns |-> 1]
    /\ windows = <<>> /\ windowLights = <<>> /\ winLog = "new"
    /\ emissiveIntensity = [windowLit |-> windowLitIntensity, glassWindow |-> 0]
    /\ frameLog = NoFrame
    /\ bldPc = "off" /\ landmarkPositions = <<>> /\ buildX2 = 0 /\ buildZ2 = 0
    /\ buildLog = NoBuild
    /\ pedPc = "off" /\ pedestrians = <<>> /\ pedLog = <<>>

NextTrafficLive ==
    Update /\ UNCHANGED <<cfg, cityPc, gx2, gz2, sidewalks, crosswalks, lodVars, pedVars, winVars, bldVars, frameVars>>

\* An update call in which simulated time advances.
TimeAdvances == NextTrafficLive /\ lightLog'.delta > 0

\* animate() re-arms itself with requestAnimationFrame and calls
\* traffic.update(delta) with the time since the last frame: calls with a
\* positive delta keep coming.
SpecTrafficLive ==
    InitTrafficLive /\ [][NextTrafficLive]_vars /\ WF_vars(TimeAdvances)

\* LevelOfDetail alone: the state after new LevelOfDetail(scene, city, camera)
\* for a city whose blocks are 50 units apart, then its methods and the
\* per-frame update(deltaTime) in any order, the camera moving in between.
InitLOD ==
    /\ cfg = [citySize |-> citySize, blockSize |-> 40, roadWidth |-> roadWidth,
              sidewalkWidth |-> sidewalkWidth]
    /\ blockRegistry = <<>> /\ activeBlocks = {} /\ scene = {}
    /\ stats = [totalBuildings |-> 0, activeBuildings |-> 0,
                totalBlocks |-> 0, activeBlocks |-> 0]
    /\ camera \in Viewpoints /\ updateTimer = 0
    /\ lodLog = LodLogOf("new", NoKey, 0, NoOps, FALSE, {}, 0)
    /\ winPc = "off" /\ winGrid = [rows |-> 1, columns |-> 1]
    /\ windows = <<>> /\ windowLights = <<>> /\ winLog = "new"
    /\ emissiveIntensity = [windowLit |-> windowLitIntensity, glassWindow |-> 0]
    /\ frameLog = NoFrame
    /\ bldPc = "off" /\ landmarkPositions = <<>> /\ buildX2 = 0 /\ buildZ2 = 0
    /\ buildLog = NoBuild
    /\ pedPc = "off" /\ pedestrians = <<>> /\ pedLog = <<>>
    /\ cityPc = "off" /\ gx2 = 0 /\ gz2 = 0
    /\ roadNetwork = <<>> /\ sidewalks = <<>> /\ crosswalks = <<>>
    /\ trafficPc = "off" /\ intersections = <<>> /\ vehicles = <<>> /\ tickLog = <<>>
    /\ lightLog = NoLights

NextLOD ==
    \/ RegisterBlock /\ UNCHANGED <<cityVars, trafficVars, pedVars, winVars, bldVars, frameVars>>
    \/ ActivateBlock /\ UNCHANGED <<cityVars, trafficVars, pedVars, winVars, bldVars, frameVars>>
    \/ DeactivateBlock /\ UNCHANGED <<cityVars, trafficVars, pedVars, winVars, bldVars, frameVars>>
    \/ UnregisterBlock /\ UNCHANGED <<cityVars, trafficVars, pedVars, winVars, bldVars, frameVars>>
    \/ LodUpdate /\ UNCHANGED <<cityVars, trafficVars, pedVars, winVars, bldVars, frameVars>>
    \/ MoveCamera /\ UNCHANGED <<cityVars, trafficVars, pedVars, winVars, bldVars, frameVars>>

SpecLOD == InitLOD /\ [][NextLOD]_vars

\* Pedestrians alone: the state after new Pedestrians(scene, city.sidewalks,
\* city.crosswalks), then initialize() and the per-frame update(delta); a
\* test may disturb a pedestrian between two updates.
InitPedFault ==
    /\ cfg \in PedConfigs
    /\ sidewalks = GridSidewalks(cfg)
    /\ crosswalks \in {GridCrosswalks(cfg), <<>>}
    /\ pedPc = "constructed" /\ pedestrians = <<>> /\ pedLog = <<>>
    /\ cityPc = "off" /\ gx2 = 0 /\ gz2 = 0 /\ roadNetwork = <<>>
    /\ trafficPc = "off" /\ intersections = <<>> /\ vehicles = <<>> /\ tickLog = <<>>
    /\ lightLog = NoLights
    /\ blockRegistry = <<>> /\ activeBlocks = {} /\ scene = {}
    /\ stats = [totalBuildings |-> 0, activeBuildings |-> 0,
                totalBlocks |-> 0, activeBlocks |-> 0]
    /\ camera = Point(0, 0) /\ updateTimer = 0
    /\ lodLog = LodLogOf("new", NoKey, 0, NoOps, FALSE, {}, 0)
    /\ winPc = "off" /\ winGrid = [rows |-> 1, columns |-> 1]
    /\ windows = <<>> /\ windowLights = <<>> /\ winLog = "new"
    /\ emissiveIntensity = [windowLit |-> windowLitIntensity, glassWindow |-> 0]
    /\ frameLog = NoFrame
    /\ bldPc = "off" /\ landmarkPositions = <<>> /\ buildX2 = 0 /\ buildZ2 = 0
    /\ buildLog = NoBuild

NextPedFault ==
    \/ PedInitialize /\ UNCHANGED <<cityVars, trafficVars, lodVars, winVars, bldVars, frameVars>>
    \/ PedUpdate /\ UNCHANGED <<cityVars, trafficVars, lodVars, winVars, bldVars, frameVars>>
    \/ Disturb /\ UNCHANGED <<cityVars, trafficVars, lodVars, winVars, bldVars, frameVars>>

SpecPedFault == InitPedFault /\ [][NextPedFault]_vars

\* City's window lights alone: one createWindowGrid call on a new City, then
\* updateWindowLights(isDaytime) as the day/night cycle calls it.
InitWindows ==
    /\ winPc = "grid" /\ winGrid \in WindowGrids
    /\ windows = <<>> /\ windowLights = <<>> /\ winLog = "new"
    /\ emissiveIntensity = [windowLit |-> windowLitIntensity, glassWindow |-> 0]
    /\ frameLog = NoFrame
    /\ bldPc = "off" /\ landmarkPositions = <<>> /\ buildX2 = 0 /\ buildZ2 = 0
    /\ buildLog = NoBuild
    /\ cfg = [citySize |-> citySize, blockSize |-> 50, roadWidth |-> roadWidth,
              sidewalkWidth |-> sidewalkWidth]
    /\ cityPc = "off" /\ gx2 = 0 /\ gz2 = 0
    /\ roadNetwork = <<>> /\ sidewalks = <<>> /\ crosswalks = <<>>
    /\ trafficPc = "off" /\ intersections = <<>> /\ vehicles = <<>> /\ tickLog = <<>>
    /\ lightLog = NoLights
    /\ blockRegistry = <<>> /\ activeBlocks = {} /\ scene = {}
    /\ stats = [totalBuildings |-> 0, activeBuildings |-> 0,
                totalBlocks |-> 0, activeBlocks |-> 0]
    /\ camera = Point(0, 0) /\ updateTimer = 0
    /\ lodLog = LodLogOf("new", NoKey, 0, NoOps, FALSE, {}, 0)
    /\ pedPc = "off" /\ pedestrians = <<>> /\ pedLog = <<>>

NextWindows ==
    \/ CreateWindow /\ UNCHANGED <<cityVars, trafficVars, lodVars, pedVars, bldVars, frameVars>>
    \/ WindowGridDone /\ UNCHANGED <<cityVars, trafficVars, lodVars, pedVars, bldVars, frameVars>>
    \/ UpdateWindowLights /\ UNCHANGED <<cityVars, trafficVars, lodVars, pedVars, bldVars, frameVars>>

SpecWindows == InitWindows /\ [][NextWindows]_vars

\* City alone: the state after createGridSystem(), then
\* createLandmarkBuildings() and createBuildings().
InitBuildings ==
    /\ cfg \in BuildConfigs
    /\ bldPc = "landmarks" /\ landmarkPositions = <<>>
    /\ buildX2 = GridStart2(cfg) /\ buildZ2 = GridStart2(cfg)
    /\ buildLog = NoBuild
    /\ cityPc = "off" /\ gx2 = 0 /\ gz2 = 0
    /\ roadNetwork = <<>> /\ sidewalks = <<>> /\ crosswalks = <<>>
    /\ trafficPc = "off" /\ intersections = <<>> /\ vehicles = <<>> /\ tickLog = <<>>
    /\ lightLog = NoLights
    /\ blockRegistry = <<>> /\ activeBlocks = {} /\ scene = {}
    /\ stats = [totalBuildings |-> 0, activeBuildings |-> 0,
                totalBlocks |-> 0, activeBlocks |-> 0]
    /\ camera = Point(0, 0) /\ updateTimer = 0
    /\ lodLog = LodLogOf("new", NoKey, 0, NoOps, FALSE, {}, 0)
    /\ winPc = "off" /\ winGrid = [rows |-> 1, columns |-> 1]
    /\ windows = <<>> /\ windowLights = <<>> /\ winLog = "new"
    /\ emissiveIntensity = [windowLit |-> windowLitIntensity, glassWindow |-> 0]
    /\ frameLog = NoFrame
    /\ pedPc = "off" /\ pedestrians = <<>> /\ pedLog = <<>>

NextBuildings ==
    \/ CreateLandmarkBuildings /\ UNCHANGED <<cityVars, trafficVars, lodVars, pedVars, winVars, frameVars>>
    \/ CreateBuildingsStep /\ UNCHANGED <<cityVars, trafficVars, lodVars, pedVars, winVars, frameVars>>
    \/ CreateBuildingsDone /\ UNCHANGED <<cityVars, trafficVars, lodVars, pedVars, winVars, frameVars>>

SpecBuildings == InitBuildings /\ [][NextBuildings]_vars

\* The animation loop: Traffic and Pedestrians constructed over the
\* collections City.createGridSystem leaves for two by two blocks and
\* initialized (every light with the same initial draws, the vehicle on the
\* first or the last road, the pedestrian on the first sidewalk), then
\* frames.
InitFrame ==
    /\ cfg = [citySize |-> 120, blockSize |-> 50, roadWidth |-> roadWidth,
              sidewalkWidth |-> sidewalkWidth]
    /\ roadNetwork = GridRoads(cfg)
    /\ sidewalks = GridSidewalks(cfg) /\ crosswalks = GridCrosswalks(cfg)
    /\ trafficPc = "running"
    /\ intersections \in
         {initializeTrafficLights(roadNetwork,
                                  [i \in IntersectionCreators(roadNetwork) |-> state],
                                  [i \in IntersectionCreators(roadNetwork) |-> timer]) :
            state \in LightStates, timer \in InitialTimers}
    /\ vehicles \in
         {[i \in 1..MaxVehicles |->
             createVehicle(randomRoadIndex(roadNetwork, r), progress, vehicleSpeed * 80)] :
            r \in RandomDraws, progress \in RandomDraws}
    /\ tickLog = [i \in 1..MaxVehicles |-> NoLog]
    /\ lightLog = CreatedLights(intersections)
    /\ pedPc = "running"
    /\ pedestrians \in
         {[i \in 1..MaxPedestrians |-> createPedestrian(sidewalks, 1, d)] :
            d \in {e \in CreateDraws : e.edge = 1 /\ e.speed = 0}}
    /\ pedLog = [i \in 1..MaxPedestrians |-> PedLogOf("create", FALSE, FALSE, "")]
    /\ frameLog = NoFrame
    /\ cityPc = "off" /\ gx2 = 0 /\ gz2 = 0
    /\ blockRegistry = <<>> /\ activeBlocks = {} /\ scene = {}
    /\ stats = [totalBuildings |-> 0, activeBuildings |-> 0,
                totalBlocks |-> 0, activeBlocks |-> 0]
    /\ camera = Point(0, 0) /\ updateTimer = 0
    /\ lodLog = LodLogOf("new", NoKey, 0, NoOps, FALSE, {}, 0)
    /\ winPc = "off" /\ winGrid = [rows |-> 1, columns |-> 1]
    /\ windows = <<>> /\ windowLights = <<>> /\ winLog = "new"
    /\ emissiveIntensity = [windowLit |-> windowLitIntensity, glassWindow |-> 0]
    /\ bldPc = "off" /\ landmarkPositions = <<>> /\ buildX2 = 0 /\ buildZ2 = 0
    /\ buildLog = NoBuild

NextFrame ==
    \/ Frame /\ UNCHANGED <<cfg, cityPc, gx2, gz2, lodVars, winVars, bldVars>>

SpecFrame == InitFrame /\ [][NextFrame]_vars

\* Pedestrians alone, as the program runs them: the state after
\* new Pedestrians(scene, sidewalks, crosswalks) over the collections of a
\* grid, then initialize() and the per-frame update(delta).
InitPed ==
    /\ cfg \in PedConfigs
    /\ sidewalks = GridSidewalks(cfg)
    /\ crosswalks \in {GridCrosswalks(cfg), <<>>}
    /\ pedPc = "constructed" /\ pedestrians = <<>> /\ pedLog = <<>>
    /\ cityPc = "off" /\ gx2 = 0 /\ gz2 = 0 /\ roadNetwork = <<>>
    /\ trafficPc = "off" /\ intersections = <<>> /\ vehicles = <<>> /\ tickLog = <<>>
    /\ lightLog = NoLights
    /\ blockRegistry = <<>> /\ activeBlocks = {} /\ scene = {}
    /\ stats = [totalBuildings |-> 0, activeBuildings |-> 0,
                totalBlocks |-> 0, activeBlocks |-> 0]
    /\ camera = Point(0, 0) /\ updateTimer = 0
    /\ lodLog = LodLogOf("new", NoKey, 0, NoOps, FALSE, {}, 0)
    /\ winPc = "off" /\ winGrid = [rows |-> 1, columns |-> 1]
    /\ windows = <<>> /\ windowLights = <<>> /\ winLog = "new"
    /\ emissiveIntensity = [windowLit |-> windowLitIntensity, glassWindow |-> 0]
    /\ frameLog = NoFrame
    /\ bldPc = "off" /\ landmarkPositions = <<>> /\ buildX2 = 0 /\ buildZ2 = 0
    /\ buildLog = NoBuild

NextPed ==
    \/ PedInitialize /\ UNCHANGED <<cityVars, trafficVars, lodVars, winVars, bldVars, frameVars>>
    \/ PedUpdate /\ UNCHANGED <<cityVars, trafficVars, lodVars, winVars, bldVars, frameVars>>

SpecPed == InitPed /\ [][NextPed]_vars

\* Pedestrians in the animation loop: the state after initialize() over a
\* grid of two by two blocks of which createGridSystem drew the first
\* crosswalk only, with the pedestrian created on the first sidewalk.
InitPedLive ==
    /\ cfg \in {c \in PedConfigs : c.citySize = 120}
    /\ sidewalks = GridSidewalks(cfg)
    /\ crosswalks = SubSeq(GridCrosswalks(cfg), 1, 1)
    /\ pedPc = "running"
    /\ \E d \in {c \in CreateDraws : c.speed = 99 /\ c.edge = 2} :
          pedestrians = [i \in 1..MaxPedestrians |-> createPedestrian(sidewalks, 1, d)]
    /\ pedLog = [i \in 1..MaxPedestrians |-> PedLogOf("create", FALSE, FALSE, "")]
    /\ cityPc = "off" /\ gx2 = 0 /\ gz2 = 0 /\ roadNetwork = <<>>
    /\ trafficPc = "off" /\ intersections = <<>> /\ vehicles = <<>> /\ tickLog = <<>>
    /\ lightLog = NoLights
    /\ blockRegistry = <<>> /\ activeBlocks = {} /\ scene = {}
    /\ stats = [totalBuildings |-> 0, activeBuildings |-> 0,
                totalBlocks |-> 0, activeBlocks |-> 0]
    /\ camera = Point(0, 0) /\ updateTimer = 0
    /\ lodLog = LodLogOf("new", NoKey, 0, NoOps, FALSE, {}, 0)
    /\ winPc = "off" /\ winGrid = [rows |-> 1, columns |-> 1]
    /\ windows = <<>> /\ windowLights = <<>> /\ winLog = "new"
    /\ emissiveIntensity = [windowLit |-> windowLitIntensity, glassWindow |-> 0]
    /\ frameLog = NoFrame
    /\ bldPc = "off" /\ landmarkPositions = <<>> /\ buildX2 = 0 /\ buildZ2 = 0
    /\ buildLog = NoBuild

NextPedLive ==
    PedUpdate /\ UNCHANGED <<cityVars, trafficVars, lodVars, winVars, bldVars, frameVars>>

\* animate() re-arms itself with requestAnimationFrame and calls
\* pedestrians.update(delta) in every frame: the calls keep coming.
SpecPedLive == InitPedLive /\ [][NextPedLive]_vars /\ WF_vars(NextPedLive)

============================================================================
